---- MODULE Spec2Model ----
(***************************************************************************)
(* Form filler service (src/app.py, src/form_filler_tool.py): canonical    *)
(* key inference, value resolution, discovery and fill of page controls,   *)
(* and the /fill and /discover request handlers.                           *)
(*                                                                         *)
(* Strings that the code inspects character by character (text signatures, *)
(* phone values) are sequences of one-character strings.  Dictionary keys  *)
(* and canonical keys, which the code only compares for equality, are      *)
(* TLA+ strings.                                                           *)
(***************************************************************************)
EXTENDS Integers, Sequences, FiniteSets, TLC

VARIABLES
    \* ---- one /fill or /discover request ----
    req,        \* the request: endpoint, data, login, key, submit hints, options
    dom,        \* the page: the controls of the main document and of a child frame
    pc,         \* position of the handler
    pw,         \* sync_playwright(): "none" | "running" | "stopped"
    browser,    \* "none" | "open" | "closed"
    ctx,        \* "none" | "open" | "closed"
    disc,       \* result of _discover_fields: sequence of (el, meta)
    cur,        \* loop cursor of the running helper
    matched,    \* result of _fill_discovered: sequence of FieldMatch
    logs,       \* the logs list of the request
    acts,       \* browser actions performed on controls, in order
    submitted,  \* result of _submit_if_possible
    resp,       \* the HTTP response, or None
    screenshot_path, \* the local screenshot_path of fill()
    faults,     \* browser calls that may still fail in this run
    \* ---- pure functions applied to drawn inputs ----
    fnIn,       \* the drawn input
    fnOut,      \* the result of the applied function
    \* ---- two concurrent requests and the files they write ----
    clock,      \* time.time() in milliseconds
    rq,         \* per request: position and the paths it wrote
    fs          \* file system: path -> sequence of writers

reqVars  == <<req, dom, pc, pw, browser, ctx, disc, cur, matched, logs, acts, submitted, resp,
              screenshot_path, faults>>
fnVars   == <<fnIn, fnOut>>
concVars == <<clock, rq, fs>>
vars     == <<req, dom, pc, pw, browser, ctx, disc, cur, matched, logs, acts, submitted, resp,
              screenshot_path, faults, fnIn, fnOut, clock, rq, fs>>

-----------------------------------------------------------------------------
(* Bounds of the model *)

\* controls on the page (main document and child frame together)
MaxControls == 2
\* atoms concatenated into a drawn text signature
MaxAtoms == 2
\* browser calls that fail during one request
MaxFaults == 1

-----------------------------------------------------------------------------
(* Python values *)

\* None as a value of type Any / Optional[str]
None == [t |-> "none"]
PyStr(s) == [t |-> "str", s |-> s]
PyBool(b) == [t |-> "bool", b |-> b]
\* None as a canonical key (Optional[str] holding a dictionary key)
NoKey == "None"

\* str(value)
str(v) ==
    IF v.t = "str" THEN v.s
    ELSE IF v.t = "bool" THEN (IF v.b THEN <<"T","r","u","e">> ELSE <<"F","a","l","s","e">>)
    ELSE <<"N","o","n","e">>

\* value not in (None, "")
NotNoneOrEmpty(v) == ~(v.t = "none") /\ ~(v.t = "str" /\ v.s = <<>>)

-----------------------------------------------------------------------------
(* Characters, str.lower(), "in", and re.search of \b(f1|f2|...)\b *)

UpperCase == <<"A","B","C","D","E","F","G","H","I","J","K","L","M",
               "N","O","P","Q","R","S","T","U","V","W","X","Y","Z">>
LowerCase == <<"a","b","c","d","e","f","g","h","i","j","k","l","m",
               "n","o","p","q","r","s","t","u","v","w","x","y","z">>
Digits == {"0","1","2","3","4","5","6","7","8","9"}

Range(s) == {s[i] : i \in DOMAIN s}

\* \w of the re module
WordChars == Range(UpperCase) \cup Range(LowerCase) \cup Digits \cup {"_"}
IsWordChar(c) == c \in WordChars

\* the lower-case letter of each upper-case letter
ToLower == [c \in Range(UpperCase) |->
              LowerCase[CHOOSE i \in DOMAIN UpperCase : UpperCase[i] = c]]

LowerChar(c) == IF c \in DOMAIN ToLower THEN ToLower[c] ELSE c

lower(t) == [i \in DOMAIN t |-> LowerChar(t[i])]

\* f occurs in t starting at position i
MatchAt(t, f, i) ==
    /\ i >= 1
    /\ i + Len(f) - 1 <= Len(t)
    /\ \A k \in 1..Len(f) : t[i + k - 1] = f[k]

\* f in t
Contains(t, f) == \E i \in 1..(Len(t) + 1) : MatchAt(t, f, i)

\* \b between t[p-1] and t[p]; the ends of the string count as non-word
WordAt(t, p) == p >= 1 /\ p <= Len(t) /\ IsWordChar(t[p])
Boundary(t, p) == WordAt(t, p - 1) # WordAt(t, p)

\* SearchWord without the closing \b: a fragment may be the start of a longer word
SearchWord_noEndBoundary(frags, t) ==
    \E f \in frags : \E i \in 1..(Len(t) + 1) :
        MatchAt(t, f, i) /\ Boundary(t, i)

\* re.search(r"\b(f1|f2|...)\b", t) for a set of literal fragments
SearchWord(frags, t) ==
    \E f \in frags : \E i \in 1..(Len(t) + 1) :
        MatchAt(t, f, i) /\ Boundary(t, i) /\ Boundary(t, i + Len(f))

-----------------------------------------------------------------------------
(* Canonical keys and heuristics *)

\* CANONICAL_KEYS, in dictionary (insertion) order
CANONICAL_KEYS == <<
    [key |-> "first_name",    syns |-> <<"first name", "given name", "forename", "fname">>],
    [key |-> "last_name",     syns |-> <<"last name", "surname", "family name", "lname">>],
    [key |-> "email",         syns |-> <<"email", "e-mail", "mail">>],
    [key |-> "phone",         syns |-> <<"phone", "telephone", "mobile", "cell">>],
    [key |-> "company",       syns |-> <<"company", "organization", "organisation", "employer">>],
    [key |-> "address_line1", syns |-> <<"address", "street", "address line 1", "addr1">>],
    [key |-> "city",          syns |-> <<"city", "town">>],
    [key |-> "state",         syns |-> <<"state", "region", "province", "county">>],
    [key |-> "postal_code",   syns |-> <<"zip", "zipcode", "postal", "postcode">>],
    [key |-> "country",       syns |-> <<"country", "nation">>],
    [key |-> "dob",           syns |-> <<"date of birth", "birthday", "birth date", "dob">>],
    [key |-> "accept_tos",    syns |-> <<"terms", "tos", "agree", "agreement", "privacy">> ] >>

CanonSet == {CANONICAL_KEYS[i].key : i \in DOMAIN CANONICAL_KEYS}

ALIASES == [k \in {"postal_code", "address_line1"} |->
              IF k = "postal_code" THEN <<"zip", "zipcode", "post_code">>
              ELSE <<"address1", "street", "line1">>]

\* ALIASES.get(canon_key, [])
AliasesGet(k) == IF k \in DOMAIN ALIASES THEN ALIASES[k] ELSE <<>>

\* the literal "email" of the first rule
LIT_email == <<"e","m","a","i","l">>

\* the fragments of one rule of _guess_canonical_key
RE_postal ==
    {<<"z","i","p">>,
     <<"p","o","s","t","a","l">>,
     <<"p","o","s","t","c","o","d","e">>}

\* the fragments of one rule of _guess_canonical_key
RE_first ==
    {<<"f","i","r","s","t">>,
     <<"g","i","v","e","n">>,
     <<"f","o","r","e","n","a","m","e">>}

\* the fragments of one rule of _guess_canonical_key
RE_last ==
    {<<"l","a","s","t">>,
     <<"s","u","r","n","a","m","e">>,
     <<"f","a","m","i","l","y">>}

\* the fragments of one rule of _guess_canonical_key
RE_phone ==
    {<<"p","h","o","n","e">>,
     <<"m","o","b","i","l","e">>,
     <<"c","e","l","l">>,
     <<"t","e","l">>}

\* the fragments of one rule of _guess_canonical_key
RE_company ==
    {<<"c","o","m","p","a","n","y">>,
     <<"o","r","g","a","n","i","z","a","t","i","o","n">>,
     <<"o","r","g","a","n","i","s","a","t","i","o","n">>,
     <<"e","m","p","l","o","y","e","r">>}

\* the fragments of one rule of _guess_canonical_key
RE_city ==
    {<<"c","i","t","y">>,
     <<"t","o","w","n">>}

\* the fragments of one rule of _guess_canonical_key
RE_state ==
    {<<"s","t","a","t","e">>,
     <<"r","e","g","i","o","n">>,
     <<"p","r","o","v","i","n","c","e">>,
     <<"c","o","u","n","t","y">>}

\* the fragments of one rule of _guess_canonical_key
RE_country ==
    {<<"c","o","u","n","t","r","y">>,
     <<"n","a","t","i","o","n">>}

\* the fragments of one rule of _guess_canonical_key
RE_dob ==
    {<<"d","a","t","e"," ","o","f"," ","b","i","r","t","h">>,
     <<"b","i","r","t","h","d","a","y">>,
     <<"d","o","b">>}

\* the fragments of one rule of _guess_canonical_key
RE_address ==
    {<<"a","d","d","r","e","s","s">>,
     <<"s","t","r","e","e","t">>}

\* the fragments of one rule of _guess_canonical_key
RE_tos ==
    {<<"t","e","r","m","s">>,
     <<"p","r","i","v","a","c","y">>,
     <<"a","g","r","e","e">>,
     <<"a","c","c","e","p","t">>}

-----------------------------------------------------------------------------
(* _guess_canonical_key *)

\* the (canon, s) pairs in the order of the two nested loops:
\* for canon, syns in CANONICAL_KEYS.items(): for s in [canon] + syns
RECURSIVE PairsFrom(_)
PairsFrom(i) ==
    IF i > Len(CANONICAL_KEYS) THEN <<>>
    ELSE LET e == CANONICAL_KEYS[i]
             ss == <<e.key>> \o e.syns
         IN [j \in 1..Len(ss) |-> [canon |-> e.key, s |-> ss[j]]] \o PairsFrom(i + 1)

PAIRS == PairsFrom(1)

\* fuzz.partial_ratio(t, s) of the rapidfuzz library: the library's answer for the
\* signature is part of the input (fz): fz.score for the strings in fz.on and
\* fz.rest for every other string
partial_ratio(fz, s) == IF s \in fz.on THEN fz.score ELSE fz.rest

\* FuzzyScan with "if score >= best_score": the last maximum is kept
RECURSIVE FuzzyScan_lastMax(_, _, _, _)
FuzzyScan_lastMax(fz, i, best, best_score) ==
    IF i > Len(PAIRS) THEN [best |-> best, best_score |-> best_score]
    ELSE LET score == partial_ratio(fz, PAIRS[i].s)
         IN IF score >= best_score
            THEN FuzzyScan_lastMax(fz, i + 1, PAIRS[i].canon, score)
            ELSE FuzzyScan_lastMax(fz, i + 1, best, best_score)

\* the scan "if score > best_score: best_score, best = score, canon" from pair i on
RECURSIVE FuzzyScan(_, _, _, _)
FuzzyScan(fz, i, best, best_score) ==
    IF i > Len(PAIRS) THEN [best |-> best, best_score |-> best_score]
    ELSE LET score == partial_ratio(fz, PAIRS[i].s)
         IN IF score > best_score
            THEN FuzzyScan(fz, i + 1, PAIRS[i].canon, score)
            ELSE FuzzyScan(fz, i + 1, best, best_score)

\* the fallback: best if best_score >= 65 else None
FuzzyKey(fz) ==
    LET r == FuzzyScan(fz, 1, NoKey, -1)
    IN IF r.best_score >= 65 THEN r.best ELSE NoKey

\* RuleKey with the country rule tried before the city and state rules
RuleKey_countryEarly(t) ==
    IF Contains(t, LIT_email) THEN "email"
    ELSE IF SearchWord(RE_postal, t) THEN "postal_code"
    ELSE IF SearchWord(RE_first, t) THEN "first_name"
    ELSE IF SearchWord(RE_last, t) THEN "last_name"
    ELSE IF SearchWord(RE_phone, t) THEN "phone"
    ELSE IF SearchWord(RE_company, t) THEN "company"
    ELSE IF SearchWord(RE_country, t) THEN "country"
    ELSE IF SearchWord(RE_city, t) THEN "city"
    ELSE IF SearchWord(RE_state, t) THEN "state"
    ELSE IF SearchWord(RE_dob, t) THEN "dob"
    ELSE IF SearchWord(RE_address, t) THEN "address_line1"
    ELSE IF SearchWord(RE_tos, t) THEN "accept_tos"
    ELSE NoKey

\* RuleKey with "name" among the fragments of the first-name rule
RuleKey_nameFragment(t) ==
    IF Contains(t, LIT_email) THEN "email"
    ELSE IF SearchWord(RE_postal, t) THEN "postal_code"
    ELSE IF SearchWord(RE_first \cup {<<"n","a","m","e">>}, t) THEN "first_name"
    ELSE IF SearchWord(RE_last, t) THEN "last_name"
    ELSE IF SearchWord(RE_phone, t) THEN "phone"
    ELSE IF SearchWord(RE_company, t) THEN "company"
    ELSE IF SearchWord(RE_city, t) THEN "city"
    ELSE IF SearchWord(RE_state, t) THEN "state"
    ELSE IF SearchWord(RE_country, t) THEN "country"
    ELSE IF SearchWord(RE_dob, t) THEN "dob"
    ELSE IF SearchWord(RE_address, t) THEN "address_line1"
    ELSE IF SearchWord(RE_tos, t) THEN "accept_tos"
    ELSE NoKey

\* the chain of rules on the lower-cased text; NoKey when no rule matches
RuleKey(t) ==
    IF Contains(t, LIT_email) THEN "email"
    ELSE IF SearchWord(RE_postal, t) THEN "postal_code"
    ELSE IF SearchWord(RE_first, t) THEN "first_name"
    ELSE IF SearchWord(RE_last, t) THEN "last_name"
    ELSE IF SearchWord(RE_phone, t) THEN "phone"
    ELSE IF SearchWord(RE_company, t) THEN "company"
    ELSE IF SearchWord(RE_city, t) THEN "city"
    ELSE IF SearchWord(RE_state, t) THEN "state"
    ELSE IF SearchWord(RE_country, t) THEN "country"
    ELSE IF SearchWord(RE_dob, t) THEN "dob"
    ELSE IF SearchWord(RE_address, t) THEN "address_line1"
    ELSE IF SearchWord(RE_tos, t) THEN "accept_tos"
    ELSE NoKey

\* one run of _guess_canonical_key: the returned key and the number of calls of
\* fuzz.partial_ratio the run made
guess_run(text, fz) ==
    LET t == lower(text)
        r == RuleKey(t)
    IN IF r # NoKey THEN [ret |-> r, calls |-> 0]
       ELSE [ret |-> FuzzyKey(fz), calls |-> Len(PAIRS)]

guess_canonical_key(text, fz) == guess_run(text, fz).ret

-----------------------------------------------------------------------------
(* _best_data_value and _normalize_value *)

\* for a in ALIASES.get(canon_key, []): if a in data: return data[a]
RECURSIVE AliasScan(_, _, _)
AliasScan(al, data, i) ==
    IF i > Len(al) THEN None
    ELSE IF al[i] \in DOMAIN data THEN data[al[i]]
    ELSE AliasScan(al, data, i + 1)

\* best_data_value with the aliases tried before the canonical key
best_data_value_aliasFirst(canon_key, data) ==
    LET a == AliasScan(AliasesGet(canon_key), data, 1)
    IN IF a # None THEN a
       ELSE IF canon_key \in DOMAIN data THEN data[canon_key] ELSE None

best_data_value(canon_key, data) ==
    IF canon_key \in DOMAIN data THEN data[canon_key]
    ELSE AliasScan(AliasesGet(canon_key), data, 1)

\* PHONE_RE.sub("", value): drop every character that is neither a digit nor "+"
PHONE_RE_sub(s) == SelectSeq(s, LAMBDA c : c \in Digits \cup {"+"})

\* normalize_value that prepends "+" without looking at the first character
normalize_value_alwaysPlus(key, value) ==
    IF key = "phone" /\ value.t = "str"
    THEN LET digits == PHONE_RE_sub(value.s)
         IN IF digits # <<>> THEN PyStr(<<"+">> \o digits) ELSE PyStr(digits)
    ELSE value

normalize_value(key, value) ==
    IF key = "phone" /\ value.t = "str"
    THEN LET digits == PHONE_RE_sub(value.s)
         IN IF Len(digits) > 0 /\ digits[1] = "+" THEN PyStr(digits)
            ELSE IF digits # <<>> THEN PyStr(<<"+">> \o digits)
            ELSE PyStr(digits)
    ELSE value

-----------------------------------------------------------------------------
(* Drawn inputs of the pure functions *)

\* words and phrases that text signatures are made of
ATOMS == <<
    <<"E","m","a","i","l">>,
    <<"z","i","p">>,
    <<"F","i","r","s","t">>,
    <<"l","a","s","t">>,
    <<"P","h","o","n","e">>,
    <<"c","o","m","p","a","n","y">>,
    <<"c","i","t","y">>,
    <<"S","t","a","t","e">>,
    <<"c","o","u","n","t","r","y">>,
    <<"d","o","b">>,
    <<"d","a","t","e"," ","o","f"," ","b","i","r","t","h">>,
    <<"A","d","d","r","e","s","s">>,
    <<"a","g","r","e","e">>,
    <<"e","m","a","i","l","e","r">>,
    <<"f","i","r","s","t","_","n","a","m","e">>,
    <<"x","q">> >>

\* " ".join(...) of the atoms with the given indices
RECURSIVE JoinAtoms(_)
JoinAtoms(ix) ==
    IF ix = <<>> THEN <<>>
    ELSE IF Len(ix) = 1 THEN ATOMS[ix[1]]
    ELSE ATOMS[ix[1]] \o <<" ">> \o JoinAtoms(Tail(ix))

\* sequences over S of length at most n
SeqsUpTo(S, n) == UNION {[1..k -> S] : k \in 0..n}

SigTexts == {JoinAtoms(ix) : ix \in SeqsUpTo(DOMAIN ATOMS, MaxAtoms)}

\* answers of fuzz.partial_ratio for a signature
FuzzOracles ==
    {[on |-> S, score |-> sc, rest |-> 0] :
        S \in {{}, {"first name", "last name"}, {"lname", "last_name"}, {"dob", "tos"}},
        sc \in {64, 65, 100}}
    \cup {[on |-> {"lname", "dob"}, score |-> sc, rest |-> 70] : sc \in {64, 80}}

\* caller data: the keys and values that occur, and the maps over them
DataKeys == {"postal_code", "zip", "zipcode", "post_code",
             "address_line1", "address1", "street", "line1", "email"}
DataVals == {PyStr(<<"9","4","1","0","3">>), PyStr(<<"0">>)}
MaxDataKeys == 3
DataMaps ==
    UNION {[K -> DataVals] : K \in {K \in SUBSET DataKeys : Cardinality(K) <= MaxDataKeys}}

\* the characters of each string of CANONICAL_KEYS
Chars(s) ==
    CASE s = "first_name" -> <<"f","i","r","s","t","_","n","a","m","e">>
      [] s = "first name" -> <<"f","i","r","s","t"," ","n","a","m","e">>
      [] s = "given name" -> <<"g","i","v","e","n"," ","n","a","m","e">>
      [] s = "forename" -> <<"f","o","r","e","n","a","m","e">>
      [] s = "fname" -> <<"f","n","a","m","e">>
      [] s = "last_name" -> <<"l","a","s","t","_","n","a","m","e">>
      [] s = "last name" -> <<"l","a","s","t"," ","n","a","m","e">>
      [] s = "surname" -> <<"s","u","r","n","a","m","e">>
      [] s = "family name" -> <<"f","a","m","i","l","y"," ","n","a","m","e">>
      [] s = "lname" -> <<"l","n","a","m","e">>
      [] s = "email" -> <<"e","m","a","i","l">>
      [] s = "e-mail" -> <<"e","-","m","a","i","l">>
      [] s = "mail" -> <<"m","a","i","l">>
      [] s = "phone" -> <<"p","h","o","n","e">>
      [] s = "telephone" -> <<"t","e","l","e","p","h","o","n","e">>
      [] s = "mobile" -> <<"m","o","b","i","l","e">>
      [] s = "cell" -> <<"c","e","l","l">>
      [] s = "company" -> <<"c","o","m","p","a","n","y">>
      [] s = "organization" -> <<"o","r","g","a","n","i","z","a","t","i","o","n">>
      [] s = "organisation" -> <<"o","r","g","a","n","i","s","a","t","i","o","n">>
      [] s = "employer" -> <<"e","m","p","l","o","y","e","r">>
      [] s = "address_line1" -> <<"a","d","d","r","e","s","s","_","l","i","n","e","1">>
      [] s = "address" -> <<"a","d","d","r","e","s","s">>
      [] s = "street" -> <<"s","t","r","e","e","t">>
      [] s = "address line 1" -> <<"a","d","d","r","e","s","s"," ","l","i","n","e"," ","1">>
      [] s = "addr1" -> <<"a","d","d","r","1">>
      [] s = "city" -> <<"c","i","t","y">>
      [] s = "town" -> <<"t","o","w","n">>
      [] s = "state" -> <<"s","t","a","t","e">>
      [] s = "region" -> <<"r","e","g","i","o","n">>
      [] s = "province" -> <<"p","r","o","v","i","n","c","e">>
      [] s = "county" -> <<"c","o","u","n","t","y">>
      [] s = "postal_code" -> <<"p","o","s","t","a","l","_","c","o","d","e">>
      [] s = "zip" -> <<"z","i","p">>
      [] s = "zipcode" -> <<"z","i","p","c","o","d","e">>
      [] s = "postal" -> <<"p","o","s","t","a","l">>
      [] s = "postcode" -> <<"p","o","s","t","c","o","d","e">>
      [] s = "country" -> <<"c","o","u","n","t","r","y">>
      [] s = "nation" -> <<"n","a","t","i","o","n">>
      [] s = "dob" -> <<"d","o","b">>
      [] s = "date of birth" -> <<"d","a","t","e"," ","o","f"," ","b","i","r","t","h">>
      [] s = "birthday" -> <<"b","i","r","t","h","d","a","y">>
      [] s = "birth date" -> <<"b","i","r","t","h"," ","d","a","t","e">>
      [] s = "accept_tos" -> <<"a","c","c","e","p","t","_","t","o","s">>
      [] s = "terms" -> <<"t","e","r","m","s">>
      [] s = "tos" -> <<"t","o","s">>
      [] s = "agree" -> <<"a","g","r","e","e">>
      [] s = "agreement" -> <<"a","g","r","e","e","m","e","n","t">>
      [] s = "privacy" -> <<"p","r","i","v","a","c","y">>

\* what fuzz.partial_ratio answers for the lower-cased signature t: 100 exactly
\* for the vocabulary strings that contain t or are contained in it (the
\* optimal alignment of the shorter string in the longer one is then an exact
\* match), and a score below 100 (rest) for every other string
LibOracle(t, rest) ==
    [on |-> {PAIRS[i].s : i \in {j \in DOMAIN PAIRS :
                                   \/ Contains(t, Chars(PAIRS[j].s))
                                   \/ Contains(Chars(PAIRS[j].s), t)}},
     score |-> 100, rest |-> rest]

\* every synonym of every key as a signature, with the library's answers for it
SynonymTexts ==
    UNION {{Chars(CANONICAL_KEYS[k].syns[j]) : j \in DOMAIN CANONICAL_KEYS[k].syns} :
              k \in DOMAIN CANONICAL_KEYS}
SynonymInputs ==
    {[op |-> "guess", text |-> tx, fz |-> LibOracle(tx, rest)] :
        tx \in SynonymTexts, rest \in {0, 99}}

\* phone values: the strings over PhoneChars of length at most MaxPhoneLen, the
\* number "+1 415 555 0117", and a value that is no string
PhoneChars == {"+", "1", "4", " ", "a"}
MaxPhoneLen == 3
PhoneExample == <<"+","1"," ","4","1","5"," ","5","5","5"," ","0","1","1","7">>
PhoneValues ==
    {PyStr(s) : s \in SeqsUpTo(PhoneChars, MaxPhoneLen) \cup {PhoneExample}}
    \cup {PyBool(TRUE)}

FnInputs ==
    {[op |-> "guess", text |-> tx, fz |-> fz] : tx \in SigTexts, fz \in FuzzOracles}
    \cup SynonymInputs
    \cup {[op |-> "norm", key |-> k, value |-> v] : k \in {"phone", "email"}, v \in PhoneValues}
    \cup {[op |-> "best", key |-> k, data |-> d] :
             k \in {"postal_code", "address_line1", "email", "city"}, d \in DataMaps}

Pending == [t |-> "pending"]

\* state of the request and of the concurrent requests while unused
ReqUnused ==
    /\ req = None /\ dom = <<>> /\ pc = "unused" /\ pw = "none" /\ browser = "none"
    /\ ctx = "none" /\ disc = <<>> /\ cur = 0 /\ matched = <<>> /\ logs = <<>>
    /\ acts = <<>> /\ submitted = FALSE /\ resp = None /\ screenshot_path = None /\ faults = 0
ConcUnused == clock = 0 /\ rq = <<>> /\ fs = <<>>
FnUnused == fnIn = None /\ fnOut = None

InitFn ==
    /\ fnIn \in FnInputs
    /\ fnOut = Pending
    /\ ReqUnused
    /\ ConcUnused

\* _guess_canonical_key(text)
Apply_guess_canonical_key ==
    /\ fnIn.op = "guess"
    /\ fnOut = Pending
    /\ fnOut' = guess_run(fnIn.text, fnIn.fz)
    /\ UNCHANGED <<fnIn, reqVars, concVars>>

\* _best_data_value(canon_key, data)
Apply_best_data_value ==
    /\ fnIn.op = "best"
    /\ fnOut = Pending
    /\ fnOut' = [ret |-> best_data_value(fnIn.key, fnIn.data)]
    /\ UNCHANGED <<fnIn, reqVars, concVars>>

\* _normalize_value(key, value), and _normalize_value(key, ...) of its result
Apply_normalize_value ==
    /\ fnIn.op = "norm"
    /\ fnOut = Pending
    /\ LET ret == normalize_value(fnIn.key, fnIn.value)
       IN fnOut' = [ret |-> ret, again |-> normalize_value(fnIn.key, ret)]
    /\ UNCHANGED <<fnIn, reqVars, concVars>>

NextFn ==
    \/ Apply_guess_canonical_key
    \/ Apply_best_data_value
    \/ Apply_normalize_value

SpecFn == InitFn /\ [][NextFn]_vars

-----------------------------------------------------------------------------
(* Properties of the pure functions (SpecFn) *)

Min(S) == CHOOSE x \in S : \A y \in S : x <= y

FnDone(op) == fnIn.op = op /\ fnOut # Pending

\* the order in which C9 says the keys of data are tried
ScanOrder(k) == <<k>> \o AliasesGet(k)
PresentIn(order, data) == {i \in DOMAIN order : order[i] \in DOMAIN data}

\* C9: _best_data_value(key, data) returns the value stored under the first key
\* present in data in the order [canonical key, then ALIASES[key] in list order],
\* and None when none is present; when the canonical key and an alias are both
\* present, the canonical key's value is returned.
C9_FirstPresentKeyWins ==
    FnDone("best") =>
        LET order == ScanOrder(fnIn.key)
            present == PresentIn(order, fnIn.data)
        IN /\ present = {} => fnOut.ret = None
           /\ present # {} => fnOut.ret = fnIn.data[order[Min(present)]]
           /\ fnIn.key \in DOMAIN fnIn.data => fnOut.ret = fnIn.data[fnIn.key]

\* C9 witness: the canonical key and one of its aliases are both present with
\* different values, and the function has returned the canonical key's value.
C9_Witness ==
    /\ FnDone("best")
    /\ fnIn.key = "postal_code"
    /\ {"postal_code", "zip"} \subseteq DOMAIN fnIn.data
    /\ fnIn.data["postal_code"] # fnIn.data["zip"]
    /\ fnOut.ret = fnIn.data["postal_code"]

\* the order of the rules as C10 states it
C10_Order == <<"email", "postal_code", "first_name", "last_name", "phone", "company",
               "city", "state", "country", "dob", "address_line1", "accept_tos">>

\* the pattern of the rule of key k matches the lower-cased text t
RuleMatches(k, t) ==
    CASE k = "email" -> Contains(t, LIT_email)
      [] k = "postal_code" -> SearchWord(RE_postal, t)
      [] k = "first_name" -> SearchWord(RE_first, t)
      [] k = "last_name" -> SearchWord(RE_last, t)
      [] k = "phone" -> SearchWord(RE_phone, t)
      [] k = "company" -> SearchWord(RE_company, t)
      [] k = "city" -> SearchWord(RE_city, t)
      [] k = "state" -> SearchWord(RE_state, t)
      [] k = "country" -> SearchWord(RE_country, t)
      [] k = "dob" -> SearchWord(RE_dob, t)
      [] k = "address_line1" -> SearchWord(RE_address, t)
      [] k = "accept_tos" -> SearchWord(RE_tos, t)

MatchingRules(text) == {i \in DOMAIN C10_Order : RuleMatches(C10_Order[i], lower(text))}

\* C10: _guess_canonical_key applies its rules in the order email, postal_code,
\* first_name, last_name, phone, company, city, state, country, dob,
\* address_line1, accept_tos: the key of the earliest matching rule is returned,
\* and fuzz.partial_ratio is called only when no rule matches.
C10_EarliestRuleWins ==
    FnDone("guess") =>
        LET m == MatchingRules(fnIn.text)
        IN /\ m # {} => (fnOut.ret = C10_Order[Min(m)] /\ fnOut.calls = 0)
           /\ fnOut.calls > 0 => m = {}

\* C10 witness: a signature matched by the state rule and the country rule has
\* been resolved to the earlier of the two.
C10_Witness ==
    /\ FnDone("guess")
    /\ {8, 9} \subseteq MatchingRules(fnIn.text)
    /\ Min(MatchingRules(fnIn.text)) = 8
    /\ fnOut.ret = "state"

-----------------------------------------------------------------------------
(* The page: controls of the main document and of one child frame *)

FZ_none == [on |-> {}, score |-> 0, rest |-> 0]

\* one control: tag, type attribute, text of its <label for>, name attribute,
\* nearby text, visibility, the labels and values of its <option>s, and the
\* answers of fuzz.partial_ratio for its signature
K_email ==
    [tag |-> "input", typ |-> <<"e","m","a","i","l">>, label |-> <<"E","m","a","i","l">>, name |-> <<>>,
     near |-> <<"E","m","a","i","l">>, visible |-> TRUE, optLabels |-> {}, optValues |-> {}, fz |-> FZ_none]
K_phone ==
    [tag |-> "input", typ |-> <<"t","e","l">>, label |-> <<"P","h","o","n","e">>, name |-> <<"t","e","l">>,
     near |-> <<>>, visible |-> TRUE, optLabels |-> {}, optValues |-> {}, fz |-> FZ_none]
K_owner ==
    [tag |-> "select", typ |-> <<>>, label |-> <<"P","h","o","n","e"," ","O","w","n","e","r">>, name |-> <<>>,
     near |-> <<>>, visible |-> TRUE, optLabels |-> {<<"S","e","l","f">>}, optValues |-> {<<"+","1","4">>}, fz |-> FZ_none]
K_agree ==
    [tag |-> "input", typ |-> <<"C","h","e","c","k","b","o","x">>, label |-> <<"I"," ","a","g","r","e","e">>, name |-> <<>>,
     near |-> <<>>, visible |-> TRUE, optLabels |-> {}, optValues |-> {}, fz |-> FZ_none]
K_other ==
    [tag |-> "input", typ |-> <<"t","e","x","t">>, label |-> <<>>, name |-> <<"x","q">>,
     near |-> <<>>, visible |-> TRUE, optLabels |-> {}, optValues |-> {}, fz |-> FZ_none]
K_hidden ==
    [tag |-> "input", typ |-> <<"h","i","d","d","e","n">>, label |-> <<>>, name |-> <<"e","m","a","i","l">>,
     near |-> <<>>, visible |-> FALSE, optLabels |-> {}, optValues |-> {}, fz |-> FZ_none]

K_radio ==
    [tag |-> "input", typ |-> <<"r","a","d","i","o">>, label |-> <<"T","e","r","m","s">>, name |-> <<>>,
     near |-> <<>>, visible |-> TRUE, optLabels |-> {}, optValues |-> {}, fz |-> FZ_none]

Kinds == {K_email, K_phone, K_owner, K_agree, K_radio, K_other, K_hidden}

\* pages with at most MaxControls controls, at most one of them in the child frame
Pages ==
    {[main |-> m, child |-> c] :
        m \in SeqsUpTo(Kinds, MaxControls), c \in SeqsUpTo(Kinds, 1)}

PagesBounded == {p \in Pages : Len(p.main) + Len(p.child) <= MaxControls}

\* [page, *page.frames]: the page, its main frame, and the child frame if any
Frames(d) == IF d.child = <<>> THEN <<"page", "main">> ELSE <<"page", "main", "child">>

\* the document a frame's locator searches
DocOf(f) == IF f = "child" THEN "child" ELSE "main"

\* the element handle loc.nth(i) of frame f: the control it denotes
El(f, i) == [doc |-> DocOf(f), idx |-> i]
Ctl(d, el) == d[el.doc][el.idx]

\* f.name or "main"
FrameName(f) == IF f = "child" THEN "child" ELSE "main"

-----------------------------------------------------------------------------
(* _candidate_text *)

IsSpace(c) == c \in {" "}

\* str.strip()
RECURSIVE lstrip(_)
lstrip(s) == IF s # <<>> /\ IsSpace(Head(s)) THEN lstrip(Tail(s)) ELSE s
RECURSIVE rstrip(_)
rstrip(s) ==
    IF s # <<>> /\ IsSpace(s[Len(s)]) THEN rstrip(SubSeq(s, 1, Len(s) - 1)) ELSE s
strip(s) == rstrip(lstrip(s))

\* " ".join(txts)
RECURSIVE join(_)
join(txts) ==
    IF txts = <<>> THEN <<>>
    ELSE IF Len(txts) = 1 THEN txts[1]
    ELSE txts[1] \o <<" ">> \o join(Tail(txts))

\* the sources that were read (not in failed) and are non-empty, in the order
\* label, attributes, nearby text; joined and stripped
candidate_text(c, failed) ==
    LET part(src, v) == IF src \in failed \/ v = <<>> THEN <<>> ELSE <<v>>
        txts == part("label", c.label) \o part("attr", c.name) \o part("near", c.near)
    IN strip(join(txts))

-----------------------------------------------------------------------------
(* _discover_fields, one step per frame and per element *)

\* the controls "input, textarea, select" of the frame's document
Controls(d, f) == d[DocOf(f)]

\* the browser reads of one element that may throw
ReadSites == {"is_visible", "tagName", "type", "frame_name", "label", "attr", "near", "outerHTML"}

\* the reads whose exception _discover_fields does not catch
Uncaught == {"type", "frame_name", "outerHTML"}

\* sets of failing reads within the remaining budget
FailSets(sites, n) == {F \in SUBSET sites : Cardinality(F) <= n}

\* the tuple (f, el, meta) appended for element i of frame f, given the failed reads
Discovered(d, f, i, failed) ==
    LET c == Ctl(d, El(f, i))
    IN [el |-> El(f, i),
        meta |-> [frame |-> FrameName(f),
                  tag |-> IF "tagName" \in failed THEN "" ELSE c.tag,
                  type |-> c.typ,
                  text |-> candidate_text(c, failed),
                  selector_preview |-> El(f, i)]]

\* for f in frames: count = loc.count() (0 when it throws)
DiscoverFrame ==
    /\ pc = "discover"
    /\ cur.i = 0
    /\ IF cur.f > Len(Frames(dom))
       THEN \* return discovered
            /\ pc' = IF req.ep = "fill" THEN "hsh" ELSE "fill"
            /\ cur' = 1
            /\ UNCHANGED faults
       ELSE \E ok \in BOOLEAN :
            /\ ~ok => faults > 0
            /\ faults' = IF ok THEN faults ELSE faults - 1
            /\ cur' = IF ok /\ Len(Controls(dom, Frames(dom)[cur.f])) > 0
                      THEN [f |-> cur.f, i |-> 1]
                      ELSE [f |-> cur.f + 1, i |-> 0]
            /\ pc' = pc
    /\ UNCHANGED <<req, dom, pw, browser, ctx, disc, matched, logs, acts, submitted, resp, screenshot_path>>
    /\ UNCHANGED <<fnVars, concVars>>

\* the body of "for i in range(count)" for element cur.i of frame cur.f
DiscoverControl ==
    /\ pc = "discover"
    /\ cur.i > 0
    /\ LET f == Frames(dom)[cur.f]
           n == Len(Controls(dom, f))
           next == IF cur.i < n THEN [f |-> cur.f, i |-> cur.i + 1]
                   ELSE [f |-> cur.f + 1, i |-> 0]
       IN \E failed \in FailSets(ReadSites, faults) :
            /\ faults' = faults - Cardinality(failed)
            /\ IF "is_visible" \in failed \/ ~Ctl(dom, El(f, cur.i)).visible
               THEN \* continue
                    /\ failed \subseteq {"is_visible"}
                    /\ cur' = next /\ pc' = pc /\ disc' = disc
               ELSE IF failed \cap Uncaught # {}
               THEN \* the exception propagates to the handler
                    /\ Cardinality(failed) = 1
                    /\ pc' = "raised" /\ cur' = cur /\ disc' = disc
               ELSE /\ disc' = Append(disc, Discovered(dom, f, cur.i, failed))
                    /\ cur' = next /\ pc' = pc
    /\ UNCHANGED <<req, dom, pw, browser, ctx, matched, logs, acts, submitted, resp, screenshot_path>>
    /\ UNCHANGED <<fnVars, concVars>>

-----------------------------------------------------------------------------
(* _fill_discovered, one step per discovered control *)

\* the data argument: /discover passes {}, /fill passes req.data
EmptyData == [k \in {} |-> None]
\* DataArg with req.data passed by discover() too
DataArg_reqData == req.data

DataArg == IF req.ep = "discover" THEN EmptyData ELSE req.data

CheckTypes == {<<"c","h","e","c","k","b","o","x">>, <<"r","a","d","i","o">>}

\* el.fill() is accepted by text-like inputs and textareas only
Fillable(c) == c.tag \in {"input", "textarea"} /\ lower(c.typ) \notin CheckTypes

\* the browser actions of one control that may fail
ActionSites(tag, typ) ==
    IF tag = "select" THEN {"select_label", "select_value"} ELSE {"action"}

\* the action calls made for one control and whether the dispatch succeeded:
\* tag and typ are those of meta, c is the live control, v the normalized value,
\* failed the calls that fail in the browser
\* Dispatch that selects by option value first and by label after that failed
Dispatch_valueFirst(el, c, tag, typ, v, failed) ==
    LET act(op, ok) == [el |-> el, op |-> op, arg |-> str(v), by |-> "_fill_discovered", ok |-> ok]
    IN IF tag = "select"
       THEN LET byLabel == str(v) \in c.optLabels /\ "select_label" \notin failed
                byValue == str(v) \in c.optValues /\ "select_value" \notin failed
            IN IF byValue THEN [acts |-> <<act("select_value", TRUE)>>, ok |-> TRUE]
               ELSE [acts |-> <<act("select_value", FALSE), act("select_label", byLabel)>>,
                     ok |-> byLabel]
       ELSE IF typ \in CheckTypes
       THEN LET should == IF v.t = "bool" THEN v.b ELSE TRUE
                ok == "action" \notin failed
            IN [acts |-> <<act(IF should THEN "check" ELSE "uncheck", ok)>>, ok |-> ok]
       ELSE LET ok == Fillable(c) /\ "action" \notin failed
            IN [acts |-> <<act("fill", ok)>>, ok |-> ok]

\* Dispatch with "should = (value is True)": only the boolean true checks
Dispatch_onlyTrueChecks(el, c, tag, typ, v, failed) ==
    LET act(op, ok) == [el |-> el, op |-> op, arg |-> str(v), by |-> "_fill_discovered", ok |-> ok]
    IN IF tag = "select"
       THEN LET byLabel == str(v) \in c.optLabels /\ "select_label" \notin failed
                byValue == str(v) \in c.optValues /\ "select_value" \notin failed
            IN IF byLabel THEN [acts |-> <<act("select_label", TRUE)>>, ok |-> TRUE]
               ELSE [acts |-> <<act("select_label", FALSE), act("select_value", byValue)>>,
                     ok |-> byValue]
       ELSE IF typ \in CheckTypes
       THEN LET should == v.t = "bool" /\ v.b
                ok == "action" \notin failed
            IN [acts |-> <<act(IF should THEN "check" ELSE "uncheck", ok)>>, ok |-> ok]
       ELSE LET ok == Fillable(c) /\ "action" \notin failed
            IN [acts |-> <<act("fill", ok)>>, ok |-> ok]

Dispatch(el, c, tag, typ, v, failed) ==
    LET act(op, ok) == [el |-> el, op |-> op, arg |-> str(v), by |-> "_fill_discovered", ok |-> ok]
    IN IF tag = "select"
       THEN LET byLabel == str(v) \in c.optLabels /\ "select_label" \notin failed
                byValue == str(v) \in c.optValues /\ "select_value" \notin failed
            IN IF byLabel THEN [acts |-> <<act("select_label", TRUE)>>, ok |-> TRUE]
               ELSE [acts |-> <<act("select_label", FALSE), act("select_value", byValue)>>,
                     ok |-> byValue]
       ELSE IF typ \in CheckTypes
       THEN LET should == IF v.t = "bool" THEN v.b ELSE TRUE
                ok == "action" \notin failed
            IN [acts |-> <<act(IF should THEN "check" ELSE "uncheck", ok)>>, ok |-> ok]
       ELSE LET ok == Fillable(c) /\ "action" \notin failed
            IN [acts |-> <<act("fill", ok)>>, ok |-> ok]

\* one iteration of "for f, el, meta in discovered": the calls made, the log
\* entries appended and the FieldMatch appended
\* FillOneWith with "filled = True" and "value_used = str(value)" placed after the
\* if statement instead of inside it
FillOneWith_filledOutsideIf(d, entry, data, failed, canon) ==
    LET meta == entry.meta
        c == Ctl(d, entry.el)
        value == IF canon # NoKey THEN best_data_value(canon, data) ELSE None
        go == canon # NoKey /\ NotNoneOrEmpty(value)
        v == normalize_value(canon, value)
        r == IF go THEN Dispatch(entry.el, c, meta.tag, lower(meta.type), v, failed)
             ELSE [acts |-> <<>>, ok |-> TRUE]
    IN [acts |-> r.acts,
        logs |-> IF go /\ ~r.ok THEN <<"Fill error">> ELSE <<>>,
        match |-> [frame |-> meta.frame, tag |-> meta.tag, type |-> meta.type,
                   label_text |-> meta.text, canonical_key |-> canon,
                   value_used |-> IF r.ok THEN PyStr(str(value)) ELSE None,
                   selector_preview |-> meta.selector_preview,
                   filled |-> r.ok]]

FillOneWith(d, entry, data, failed, canon) ==
    LET meta == entry.meta
        c == Ctl(d, entry.el)
        value == IF canon # NoKey THEN best_data_value(canon, data) ELSE None
        go == canon # NoKey /\ NotNoneOrEmpty(value)
        v == normalize_value(canon, value)
        r == IF go THEN Dispatch(entry.el, c, meta.tag, lower(meta.type), v, failed)
             ELSE [acts |-> <<>>, ok |-> FALSE]
    IN [acts |-> r.acts,
        logs |-> IF go /\ ~r.ok THEN <<"Fill error">> ELSE <<>>,
        match |-> [frame |-> meta.frame, tag |-> meta.tag, type |-> meta.type,
                   label_text |-> meta.text, canonical_key |-> canon,
                   value_used |-> IF r.ok THEN PyStr(str(v)) ELSE None,
                   selector_preview |-> meta.selector_preview,
                   filled |-> r.ok]]

\* canon = _guess_canonical_key(meta.get("text", "")), then the rest of the body
FillOne(d, entry, data, failed) ==
    LET canon == CHOOSE k \in {guess_canonical_key(entry.meta.text, Ctl(d, entry.el).fz)} : TRUE
    IN FillOneWith(d, entry, data, failed, canon)

\* FillControl with matched.append(...) inside the try block, after the dispatch
FillControl_appendInTry ==
    /\ pc = "fill"
    /\ cur <= Len(disc)
    /\ \E failed \in FailSets(ActionSites(disc[cur].meta.tag, lower(disc[cur].meta.type)), faults) :
       \E r \in {FillOne(dom, disc[cur], DataArg, failed)} :
         LET calls == {r.acts[i].op : i \in DOMAIN r.acts}
         IN /\ \A site \in failed :
                 site \in calls \/ (site = "action" /\ calls \cap {"fill", "check", "uncheck"} # {})
            /\ faults' = faults - Cardinality(failed)
            /\ acts' = acts \o r.acts
            /\ logs' = logs \o r.logs
            /\ matched' = IF r.logs # <<>> THEN matched ELSE Append(matched, r.match)
    /\ cur' = cur + 1
    /\ UNCHANGED <<req, dom, pc, pw, browser, ctx, disc, submitted, resp, screenshot_path>>
    /\ UNCHANGED <<fnVars, concVars>>

\* FillControl that leaves the loop at the first failed action
FillControl_stopAtFailure ==
    /\ pc = "fill"
    /\ cur <= Len(disc)
    /\ \E failed \in FailSets(ActionSites(disc[cur].meta.tag, lower(disc[cur].meta.type)), faults) :
       \E r \in {FillOne(dom, disc[cur], DataArg, failed)} :
         LET calls == {r.acts[i].op : i \in DOMAIN r.acts}
         IN /\ \A site \in failed :
                 site \in calls \/ (site = "action" /\ calls \cap {"fill", "check", "uncheck"} # {})
            /\ faults' = faults - Cardinality(failed)
            /\ acts' = acts \o r.acts
            /\ logs' = logs \o r.logs
            /\ matched' = Append(matched, r.match)
            /\ cur' = IF r.logs # <<>> THEN Len(disc) + 1 ELSE cur + 1
    /\ UNCHANGED <<req, dom, pc, pw, browser, ctx, disc, submitted, resp, screenshot_path>>
    /\ UNCHANGED <<fnVars, concVars>>

\* the body of the loop for discovered[cur]
FillControl ==
    /\ pc = "fill"
    /\ cur <= Len(disc)
    /\ \E failed \in FailSets(ActionSites(disc[cur].meta.tag, lower(disc[cur].meta.type)), faults) :
       \E r \in {FillOne(dom, disc[cur], DataArg, failed)} :
         LET calls == {r.acts[i].op : i \in DOMAIN r.acts}
         IN \* a call that is not made cannot fail
            /\ \A site \in failed :
                 site \in calls \/ (site = "action" /\ calls \cap {"fill", "check", "uncheck"} # {})
            /\ faults' = faults - Cardinality(failed)
            /\ acts' = acts \o r.acts
            /\ logs' = logs \o r.logs
            /\ matched' = Append(matched, r.match)
    /\ cur' = cur + 1
    /\ UNCHANGED <<req, dom, pc, pw, browser, ctx, disc, submitted, resp, screenshot_path>>
    /\ UNCHANGED <<fnVars, concVars>>

\* return matched
FillReturn ==
    /\ pc = "fill"
    /\ cur > Len(disc)
    /\ pc' = IF req.ep = "fill" THEN "submit" ELSE "close_ctx"
    /\ cur' = 1
    /\ UNCHANGED <<req, dom, pw, browser, ctx, disc, matched, logs, acts, submitted, resp, screenshot_path, faults>>
    /\ UNCHANGED <<fnVars, concVars>>

-----------------------------------------------------------------------------
(* _fill_discovered on drawn inputs (SpecFill) *)

\* caller data of a request
D_contact ==
    [email |-> PyStr(<<"a","@","b">>), phone |-> PyStr(<<"n","/","a">>),
     dob |-> PyStr(<<"1","-","0","2","-","3">>), notes |-> PyStr(<<"h","i">>),
     accept_tos |-> PyStr(<<"y","e","s">>)]
D_owner ==
    [phone |-> PyStr(<<"+","1"," ","4">>), phone_owner |-> PyStr(<<"S","e","l","f">>),
     accept_tos |-> PyBool(FALSE), bed_preference |-> PyStr(<<"M","a","l","e">>),
     shelters |-> PyStr(<<"a","g","r","e","e",","," ">>)]
D_terms == [accept_tos |-> PyBool(TRUE), email |-> PyStr(<<>>)]

ReqData == {D_contact, D_owner, D_terms}

\* the result of _discover_fields on page d when the reads in failed fail for
\* every element (none of them uncaught): frames in order, elements in order
RECURSIVE DiscoverFrom(_, _, _, _)
DiscoverFrom(d, fi, i, failed) ==
    IF fi > Len(Frames(d)) THEN <<>>
    ELSE LET f == Frames(d)[fi]
         IN IF i > Len(Controls(d, f)) THEN DiscoverFrom(d, fi + 1, 1, failed)
            ELSE IF "is_visible" \in failed \/ ~Ctl(d, El(f, i)).visible
            THEN DiscoverFrom(d, fi, i + 1, failed)
            ELSE <<Discovered(d, f, i, failed)>> \o DiscoverFrom(d, fi, i + 1, failed)

InitFill ==
    /\ dom \in PagesBounded
    /\ req \in {[ep |-> "fill", data |-> d] : d \in ReqData}
    /\ disc \in {DiscoverFrom(dom, 1, 1, failed) : failed \in {{}, {"tagName"}, {"label"}}}
    /\ pc = "fill"
    /\ cur = 1
    /\ pw = "running" /\ browser = "open" /\ ctx = "open"
    /\ matched = <<>> /\ logs = <<>> /\ acts = <<>>
    /\ submitted = FALSE /\ resp = None /\ screenshot_path = None
    \* every action call may fail
    /\ faults = 2 * Len(disc)
    /\ FnUnused /\ ConcUnused

\* the function has returned
FillDone ==
    /\ pc = "fill"
    /\ cur > Len(disc)
    /\ pc' = "returned"
    /\ UNCHANGED <<req, dom, pw, browser, ctx, disc, cur, matched, logs, acts, submitted, resp, screenshot_path,
                   faults>>
    /\ UNCHANGED <<fnVars, concVars>>

NextFill ==
    \/ FillControl
    \/ FillDone

SpecFill == InitFill /\ [][NextFill]_vars

-----------------------------------------------------------------------------
(* Properties of _fill_discovered (SpecFill) *)

\* C1: every FieldMatch record of _fill_discovered with filled = true has a
\* non-null canonical_key and a non-null value_used, whatever the discovered
\* controls, the caller data and the failing browser actions.
C1_FilledImpliesKeyAndValue ==
    \A i \in DOMAIN matched :
        matched[i].filled =>
            (matched[i].canonical_key # NoKey /\ matched[i].value_used # None)

\* C1 witness: the function has returned records of which one is filled, one has
\* no key and one belongs to a control whose action failed.
C1_Witness ==
    /\ pc = "returned"
    /\ \E i \in DOMAIN matched : matched[i].filled
    /\ \E i \in DOMAIN matched : matched[i].canonical_key = NoKey
    /\ \E i \in DOMAIN acts : ~acts[i].ok

\* the record describes the discovered control: the fields copied from meta
Describes(m, entry) ==
    /\ m.frame = entry.meta.frame
    /\ m.tag = entry.meta.tag
    /\ m.type = entry.meta.type
    /\ m.label_text = entry.meta.text
    /\ m.selector_preview = entry.meta.selector_preview

\* C2: the FieldMatch sequence returned by _fill_discovered has the length of
\* the discovered sequence (the empty one included) and its i-th record
\* describes the i-th discovered control, whatever the data and failures.
C2_OrderPreserved ==
    /\ Len(matched) = (IF pc = "fill" THEN cur - 1 ELSE Len(disc))
    /\ \A i \in DOMAIN matched : i <= Len(disc) /\ Describes(matched[i], disc[i])

\* C2 witness: the function has returned for a sequence holding two different
\* controls, the earlier of which had its action fail and the later was filled.
C2_Witness ==
    /\ pc = "returned"
    /\ logs # <<>>
    /\ \E i, j \in DOMAIN disc :
        /\ i < j
        /\ disc[i].el # disc[j].el
        /\ ~matched[i].filled /\ matched[i].canonical_key # NoKey
        /\ matched[j].filled

\* the resolved and normalized value of discovered[i]
NormalizedValue(i) ==
    LET canon == matched[i].canonical_key
        value == IF canon # NoKey THEN best_data_value(canon, DataArg) ELSE None
    IN IF value = None THEN None ELSE normalize_value(canon, value)

NullOrEmpty(v) == v = None \/ (v.t = "str" /\ v.s = <<>>)

\* C8: in _fill_discovered, whenever the inferred key is null, or the resolved
\* and normalized value is null or the empty string, no fill/select/check/uncheck
\* action is performed on the control and its record has filled = false.
C8_NoActionWithoutValue ==
    \A i \in DOMAIN matched :
        (matched[i].canonical_key = NoKey \/ NullOrEmpty(NormalizedValue(i))) =>
            /\ ~matched[i].filled
            /\ \A j \in DOMAIN acts : acts[j].el # disc[i].el

-----------------------------------------------------------------------------
(* _fill_hsh_specific and its helpers *)

PyInt(n) == [t |-> "int", n |-> n]
PyList(l) == [t |-> "list", l |-> l]

\* data.get(k)
DataGet(data, k) == IF k \in DOMAIN data THEN data[k] ELSE None

\* bool(v)
Truthy(v) ==
    \/ v.t = "str" /\ v.s # <<>>
    \/ v.t = "bool" /\ v.b
    \/ v.t = "int" /\ v.n # 0
    \/ v.t = "list" /\ v.l # <<>>

\* a or b
Or(a, b) == IF Truthy(a) THEN a ELSE b

DigitSeq == <<"0","1","2","3","4","5","6","7","8","9">>
DigitVal(c) == (CHOOSE i \in DOMAIN DigitSeq : DigitSeq[i] = c) - 1

\* str.isdigit() for the ASCII digits
isdigit(s) == s # <<>> /\ \A i \in DOMAIN s : s[i] \in Digits

\* int(s) of a string of decimal digits
RECURSIVE IntOf(_)
IntOf(s) == IF s = <<>> THEN 0 ELSE 10 * IntOf(SubSeq(s, 1, Len(s) - 1)) + DigitVal(s[Len(s)])

\* str(n) of a natural number
RECURSIVE StrOfNat(_)
StrOfNat(n) == IF n < 10 THEN <<DigitSeq[n + 1]>> ELSE StrOfNat(n \div 10) \o <<DigitSeq[(n % 10) + 1]>>

\* str(v) of the values _fill_hsh_specific handles
hstr(v) == IF v.t = "int" THEN StrOfNat(v.n) ELSE str(v)

\* s.split(sep) for a one-character separator
RECURSIVE split(_, _)
split(s, sep) ==
    IF \A i \in DOMAIN s : s[i] # sep THEN <<s>>
    ELSE LET k == CHOOSE i \in DOMAIN s : s[i] = sep /\ \A j \in 1..(i - 1) : s[j] # sep
         IN <<SubSeq(s, 1, k - 1)>> \o split(SubSeq(s, k + 1, Len(s)), sep)

\* MONTHS: lower-cased month name -> number
MONTHS == <<
    <<"j","a","n","u","a","r","y">>,
    <<"f","e","b","r","u","a","r","y">>,
    <<"m","a","r","c","h">>,
    <<"a","p","r","i","l">>,
    <<"m","a","y">>,
    <<"j","u","n","e">>,
    <<"j","u","l","y">>,
    <<"a","u","g","u","s","t">>,
    <<"s","e","p","t","e","m","b","e","r">>,
    <<"o","c","t","o","b","e","r">>,
    <<"n","o","v","e","m","b","e","r">>,
    <<"d","e","c","e","m","b","e","r">> >>

\* MONTHS.get(name, default)
MonthsGet(name, default) ==
    IF name = <<>> THEN PyInt(0)
    ELSE IF \E i \in DOMAIN MONTHS : MONTHS[i] = name
    THEN PyInt(CHOOSE i \in DOMAIN MONTHS : MONTHS[i] = name)
    ELSE default

\* byear, bmon, bday after lines 447-454: taken from dob when it is a string of
\* three "-"-separated parts (bmon converted by int() when it is all digits),
\* else from birth_year, birth_month, birth_day
BirthParts(data) ==
    LET dob == Or(DataGet(data, "dob"), DataGet(data, "date_of_birth"))
    IN IF dob.t = "str" /\ Len(split(dob.s, "-")) = 3
       THEN LET ps == split(dob.s, "-")
            IN [byear |-> PyStr(ps[1]),
                bmon |-> IF isdigit(ps[2]) THEN PyInt(IntOf(ps[2])) ELSE PyStr(ps[2]),
                bday |-> PyStr(ps[3])]
       ELSE [byear |-> DataGet(data, "birth_year"),
             bmon |-> DataGet(data, "birth_month"),
             bday |-> DataGet(data, "birth_day")]

\* mv of lines 462-464
MonthValue(bmon) ==
    IF bmon.t = "str" /\ ~isdigit(bmon.s) THEN MonthsGet(lower(bmon.s), bmon) ELSE bmon

\* one browser action of a helper on an element
Act(el, op, arg, by, ok) == [el |-> el, op |-> op, arg |-> arg, by |-> by, ok |-> ok]

\* _select_option_by_label_or_value(el, value): by label, then by value, then a
\* click on the first <option> whose text contains the value; never raises
select_option_by_label_or_value(el, c, value) ==
    LET by == "_fill_hsh_specific"
        isSel == c.tag = "select"
    IN IF isSel /\ value \in c.optLabels THEN <<Act(el, "select_label", value, by, TRUE)>>
       ELSE IF isSel /\ value \in c.optValues
       THEN <<Act(el, "select_label", value, by, FALSE), Act(el, "select_value", value, by, TRUE)>>
       ELSE <<Act(el, "select_label", value, by, FALSE), Act(el, "select_value", value, by, FALSE)>>
            \o (IF isSel /\ \E l \in c.optLabels : Contains(lower(l), lower(value))
                THEN <<Act(el, "option_click", value, by, TRUE)>> ELSE <<>>)

\* the elements of the page (main frame) with index in ix, in document order
MainEls(d, ix) ==
    LET idx == SelectSeq([i \in DOMAIN d.main |-> i], LAMBDA i : i \in ix)
    IN [k \in DOMAIN idx |-> [doc |-> "main", idx |-> idx[k]]]

\* page.get_by_label(...) for a pattern found anywhere in the label, ignoring case
LabelHas(d, frag) ==
    MainEls(d, {i \in DOMAIN d.main : Contains(lower(d.main[i].label), lower(frag))})
\* page.get_by_label(re.compile(r"^...$", re.I))
LabelIs(d, whole) ==
    MainEls(d, {i \in DOMAIN d.main : lower(d.main[i].label) = lower(whole)})

L_phone_owner == <<"P","h","o","n","e"," ","O","w","n","e","r">>
L_alt_phone_owner == <<"A","l","t","e","r","n","a","t","e"," ","P","h","o","n","e"," ","O","w","n","e","r">>
L_bed == <<" ","B","e","d">>
L_notes == <<"A","n","y","t","h","i","n","g"," ","w","e"," ","n","e","e","d"," ","t","o"," ","k","n","o","w","?">>
S_male == <<"m","a","l","e">>
S_female == <<"f","e","m","a","l","e">>

\* str.capitalize() of a lower-case word
capitalize(s) ==
    IF s = <<>> THEN s
    ELSE LET up == IF \E i \in DOMAIN LowerCase : LowerCase[i] = s[1]
                   THEN UpperCase[CHOOSE i \in DOMAIN LowerCase : LowerCase[i] = s[1]]
                   ELSE s[1]
         IN <<up>> \o Tail(s)

\* the birthdate section: acts and log entries
HshBirthdate(d, data, hasText, fault) ==
    LET by == "_fill_hsh_specific"
        b == BirthParts(data)
        visible == MainEls(d, {i \in DOMAIN d.main : d.main[i].tag = "select" /\ d.main[i].visible})
        sel(k, v) == IF Truthy(v)
                     THEN select_option_by_label_or_value(visible[k], Ctl(d, visible[k]), hstr(v))
                     ELSE <<>>
    IN IF fault = "birthdate" THEN [acts |-> <<>>, logs |-> <<"Birthdate fill error">>]
       ELSE IF hasText /\ Len(visible) >= 3
               /\ (Truthy(b.bmon) \/ Truthy(b.bday) \/ Truthy(b.byear))
       THEN [acts |-> sel(1, MonthValue(b.bmon)) \o sel(2, b.bday) \o sel(3, b.byear),
             logs |-> <<>>]
       ELSE [acts |-> <<>>, logs |-> <<>>]

\* one round of the loop over phone_owner and alt_phone_owner
HshOwner(d, data, key, els, fault) ==
    LET val == DataGet(data, key)
    IN IF ~Truthy(val) THEN [acts |-> <<>>, logs |-> <<>>]
       ELSE IF fault = key THEN [acts |-> <<>>, logs |-> <<key \o " select error">>]
       ELSE IF Len(els) > 0
       THEN [acts |-> select_option_by_label_or_value(els[1], Ctl(d, els[1]), hstr(val)),
             logs |-> <<>>]
       ELSE [acts |-> <<>>, logs |-> <<>>]

\* locator.check(): needs exactly one matching element, a checkbox or radio
CheckOne(d, els, arg, fault) ==
    LET ok == ~fault /\ Len(els) = 1 /\ lower(Ctl(d, els[1]).typ) \in CheckTypes
    IN [acts |-> IF ~fault /\ Len(els) = 1
                 THEN <<Act(els[1], "check", arg, "_fill_hsh_specific", ok)>> ELSE <<>>,
        ok |-> ok]

\* the bed preference section, for bed in ("male", "female")
HshBed(d, bed, fault) ==
    LET r == CheckOne(d, LabelHas(d, capitalize(bed) \o L_bed), bed, fault = "bed")
    IN [acts |-> r.acts, logs |-> IF r.ok THEN <<>> ELSE <<"Bed preference error">>]

\* the loop over shelters, from shelter i on; the fallback locator
\* input[type='checkbox'] filtered by has_text matches nothing (an input has no text)
RECURSIVE HshShelters(_, _, _, _)
HshShelters(d, shelters, i, fault) ==
    IF i > Len(shelters) THEN [acts |-> <<>>, logs |-> <<>>]
    ELSE LET r == CheckOne(d, LabelHas(d, shelters[i]), shelters[i],
                           fault = "shelter_check" /\ i = 1)
             rest == HshShelters(d, shelters, i + 1, fault)
         IN [acts |-> r.acts \o rest.acts,
             logs |-> (IF ~r.ok /\ fault = "shelter_fallback" /\ i = 1
                       THEN <<"Shelter checkbox error">> ELSE <<>>) \o rest.logs]

\* the notes section: failures are swallowed
HshNotes(d, data) ==
    LET els == LabelHas(d, L_notes)
        notes == DataGet(data, "notes")
    IN IF Truthy(notes) /\ Len(els) = 1
       THEN <<Act(els[1], "fill", hstr(notes), "_fill_hsh_specific", Fillable(Ctl(d, els[1])))>>
       ELSE <<>>

\* the shelters the loop iterates over, when the value is a string or a list
ShelterList(data) ==
    LET sh == Or(DataGet(data, "shelters"), PyList(<<>>))
    IN IF sh.t = "str"
       THEN SelectSeq([i \in DOMAIN split(sh.s, ",") |-> strip(split(sh.s, ",")[i])],
                      LAMBDA x : x # <<>>)
       ELSE IF sh.t = "list" THEN sh.l ELSE <<>>

\* the calls of _fill_hsh_specific of which one may throw
HshSites == {"none", "birthdate", "phone_owner", "alt_phone_owner", "bed",
             "shelter_check", "shelter_fallback"}

\* _fill_hsh_specific(page, data, ...): the actions performed, the log entries
\* appended, and whether an exception leaves the function
fill_hsh_specific(d, data, hasText, fault) ==
    LET birth == HshBirthdate(d, data, hasText, fault)
        own == HshOwner(d, data, "phone_owner", LabelIs(d, L_phone_owner), fault)
        alt == HshOwner(d, data, "alt_phone_owner", LabelHas(d, L_alt_phone_owner), fault)
        bedv == Or(DataGet(data, "bed_preference"), PyStr(<<>>))
        sh == Or(DataGet(data, "shelters"), PyList(<<>>))
        list == ShelterList(data)
    IN IF bedv.t # "str"
       THEN \* .lower() of a value that is no string
            [acts |-> birth.acts \o own.acts \o alt.acts,
             logs |-> birth.logs \o own.logs \o alt.logs, raised |-> TRUE]
       ELSE LET bed == IF lower(bedv.s) \in {S_male, S_female}
                       THEN HshBed(d, lower(bedv.s), fault)
                       ELSE [acts |-> <<>>, logs |-> <<>>]
            IN IF sh.t \notin {"str", "list"}
               THEN \* iteration over a value that is no sequence
                    [acts |-> birth.acts \o own.acts \o alt.acts \o bed.acts,
                     logs |-> birth.logs \o own.logs \o alt.logs \o bed.logs, raised |-> TRUE]
               ELSE LET shl == HshShelters(d, list, 1, fault)
                    IN [acts |-> birth.acts \o own.acts \o alt.acts \o bed.acts \o shl.acts
                                 \o HshNotes(d, data),
                        logs |-> birth.logs \o own.logs \o alt.logs \o bed.logs \o shl.logs,
                        raised |-> FALSE]

\* the calls _fill_hsh_specific makes on page d with this data: only these can throw
HshCalls(d, data) ==
    LET bedv == Or(DataGet(data, "bed_preference"), PyStr(<<>>))
        list == ShelterList(data)
    IN {"none", "birthdate"}
       \cup {k \in {"phone_owner", "alt_phone_owner"} : Truthy(DataGet(data, k))}
       \cup (IF bedv.t = "str" /\ lower(bedv.s) \in {S_male, S_female} THEN {"bed"} ELSE {})
       \cup (IF bedv.t = "str" /\ list # <<>>
             THEN {"shelter_check"}
                  \cup (IF CheckOne(d, LabelHas(d, list[1]), list[1], FALSE).ok
                        THEN {} ELSE {"shelter_fallback"})
             ELSE {})

-----------------------------------------------------------------------------
(* The handlers discover() and fill(), one step per call of the handler *)

\* a request whose bed_preference is no string
D_bed == [email |-> PyStr(<<"a","@","b">>), bed_preference |-> PyBool(TRUE)]

HandlerData == ReqData \cup {D_bed}

Init ==
    /\ req \in {[ep |-> e, data |-> d] : e \in {"fill", "discover"}, d \in HandlerData}
    /\ dom \in PagesBounded
    /\ pc = "start"
    /\ pw = "none" /\ browser = "none" /\ ctx = "none"
    /\ disc = <<>> /\ cur = 0 /\ matched = <<>> /\ logs = <<>> /\ acts = <<>>
    /\ submitted = FALSE /\ resp = None /\ screenshot_path = None
    /\ faults = MaxFaults
    /\ FnUnused /\ ConcUnused

\* the variables a step of the handler outside the helpers leaves alone
Locals == <<req, dom, disc, matched, acts, submitted, screenshot_path>>

\* require_api_key(x_api_key): 401 when API_KEY is set and the header differs
Auth ==
    /\ pc = "start"
    /\ \E keyOk \in BOOLEAN :
         IF keyOk
         THEN pc' = (IF req.ep = "fill" THEN "files" ELSE "enter") /\ resp' = resp
         ELSE pc' = "done" /\ resp' = [status |-> 401]
    /\ UNCHANGED <<Locals, cur, logs, pw, browser, ctx, faults>>
    /\ UNCHANGED <<fnVars, concVars>>

\* "for f in req.files": the files are written before the browser starts; a
\* content_b64 that does not decode ends the request
StageFiles ==
    /\ pc = "files"
    /\ \E decodes \in BOOLEAN :
         IF decodes
         THEN pc' = "enter" /\ resp' = resp
         ELSE pc' = "done" /\ resp' = [status |-> 500]
    /\ UNCHANGED <<Locals, cur, logs, pw, browser, ctx, faults>>
    /\ UNCHANGED <<fnVars, concVars>>

\* with sync_playwright() as pw
EnterWith ==
    /\ pc = "enter"
    /\ pw' = "running"
    /\ pc' = "launch"
    /\ UNCHANGED <<Locals, cur, logs, browser, ctx, resp, faults>>
    /\ UNCHANGED <<fnVars, concVars>>

\* browser = pw.chromium.launch(...)
Launch ==
    /\ pc = "launch"
    /\ \E ok \in BOOLEAN :
         /\ ~ok => faults > 0
         /\ faults' = IF ok THEN faults ELSE faults - 1
         /\ browser' = IF ok THEN "open" ELSE browser
         /\ pc' = IF ok THEN "context" ELSE "raised"
    /\ UNCHANGED <<Locals, cur, logs, pw, ctx, resp>>
    /\ UNCHANGED <<fnVars, concVars>>

\* ctx = browser.new_context()
NewContext ==
    /\ pc = "context"
    /\ \E ok \in BOOLEAN :
         /\ ~ok => faults > 0
         /\ faults' = IF ok THEN faults ELSE faults - 1
         /\ ctx' = IF ok THEN "open" ELSE ctx
         /\ pc' = IF ok THEN "page" ELSE "raised"
    /\ UNCHANGED <<Locals, cur, logs, pw, browser, resp>>
    /\ UNCHANGED <<fnVars, concVars>>

\* page = ctx.new_page()
NewPage ==
    /\ pc = "page"
    /\ \E ok \in BOOLEAN :
         /\ ~ok => faults > 0
         /\ faults' = IF ok THEN faults ELSE faults - 1
         /\ pc' = IF ok THEN "goto" ELSE "raised"
    /\ UNCHANGED <<Locals, cur, logs, pw, browser, ctx, resp>>
    /\ UNCHANGED <<fnVars, concVars>>

\* page.goto(str(req.url), wait_until="domcontentloaded")
Goto ==
    /\ pc = "goto"
    /\ \E ok \in BOOLEAN :
         /\ ~ok => faults > 0
         /\ faults' = IF ok THEN faults ELSE faults - 1
         /\ pc' = IF ok THEN "login" ELSE "raised"
    /\ UNCHANGED <<Locals, cur, logs, pw, browser, ctx, resp>>
    /\ UNCHANGED <<fnVars, concVars>>

\* if req.login: _login_if_needed(page, req.login, ...): goto, fill, fill and
\* click are not guarded; only PWTimeout of wait_for_load_state is caught
Login ==
    /\ pc = "login"
    /\ \E login \in BOOLEAN :
         IF ~login
         THEN pc' = "verint" /\ UNCHANGED <<logs, faults>>
         ELSE \E out \in {"ok", "timeout", "raise"} :
                /\ out # "ok" => faults > 0
                /\ faults' = IF out = "ok" THEN faults ELSE faults - 1
                /\ logs' = IF out = "timeout"
                           THEN Append(logs, "Post-login network idle not reached; continuing.")
                           ELSE logs
                /\ pc' = IF out = "raise" THEN "raised" ELSE "relogin"
    /\ UNCHANGED <<Locals, cur, pw, browser, ctx, resp>>
    /\ UNCHANGED <<fnVars, concVars>>

\* the page.goto(str(req.url), ...) after the login
Relogin ==
    /\ pc = "relogin"
    /\ \E ok \in BOOLEAN :
         /\ ~ok => faults > 0
         /\ faults' = IF ok THEN faults ELSE faults - 1
         /\ pc' = IF ok THEN "verint" ELSE "raised"
    /\ UNCHANGED <<Locals, cur, logs, pw, browser, ctx, resp>>
    /\ UNCHANGED <<fnVars, concVars>>

\* if _is_verint(str(req.url)): _verint_start_flow(page, ...): each of its two
\* blocks logs the exception that leaves it
Verint ==
    /\ pc = "verint"
    /\ \E is_verint \in BOOLEAN :
       \E failed \in FailSets({"start", "password"}, faults) :
         /\ ~is_verint => failed = {}
         /\ faults' = faults - Cardinality(failed)
         /\ logs' = logs
                    \o (IF "start" \in failed THEN <<"Start button not found/failed">> ELSE <<>>)
                    \o (IF "password" \in failed THEN <<"Password step handling error">> ELSE <<>>)
    /\ pc' = "discover"
    /\ cur' = [f |-> 1, i |-> 0]
    /\ UNCHANGED <<Locals, pw, browser, ctx, resp>>
    /\ UNCHANGED <<fnVars, concVars>>

\* _fill_hsh_specific(page, req.data, req.options.timeout_ms, logs)
Hsh ==
    /\ pc = "hsh"
    /\ \E hasText \in BOOLEAN :
       \E fault \in HshCalls(dom, req.data) :
       \E r \in {fill_hsh_specific(dom, req.data, hasText, fault)} :
         /\ fault # "none" => faults > 0
         /\ faults' = IF fault = "none" THEN faults ELSE faults - 1
         /\ acts' = acts \o r.acts
         /\ logs' = logs \o r.logs
         /\ pc' = IF r.raised THEN "raised" ELSE "fill"
    /\ UNCHANGED <<req, dom, pw, browser, ctx, disc, cur, matched, submitted, resp,
                   screenshot_path>>
    /\ UNCHANGED <<fnVars, concVars>>

\* the selectors _submit_if_possible always tries, in order
DefaultSelectors ==
    <<"button[type='submit']", "input[type='submit']", "button:has-text('Submit')",
      "button:has-text('Next')", "button:has-text('Continue')",
      "[role='button']:has-text('Submit')">>

\* submit.selector of a request that gives one
HintSelector == "#send"

\* the selectors that match a visible button after filling: none, or one
\* <button id="send" type="submit">Submit</button>
ButtonSets == {{}, {"#send", "button[type='submit']", "button:has-text('Submit')"}}

\* _submit_if_possible(page, req.submit, ...): the selectors list
SubmitBegin ==
    /\ pc = "submit"
    /\ \E hint \in BOOLEAN, vis \in ButtonSets :
         cur' = [sels |-> (IF hint THEN <<HintSelector>> ELSE <<>>) \o DefaultSelectors,
                 i |-> 1, visible |-> vis]
    /\ pc' = "submit_loop"
    /\ UNCHANGED <<Locals, logs, pw, browser, ctx, resp, faults>>
    /\ UNCHANGED <<fnVars, concVars>>

\* the body of "for s in selectors" for selectors[cur.i], and "return False"
SubmitStep ==
    /\ pc = "submit_loop"
    /\ IF cur.i > Len(cur.sels)
       THEN /\ submitted' = FALSE
            /\ pc' = "errors"
            /\ UNCHANGED <<cur, logs, acts, faults>>
       ELSE LET sel == cur.sels[cur.i]
                click(ok) == Act([doc |-> "main", sel |-> sel], "click", sel, "_submit_if_possible", ok)
                failure == "Submit attempt failed for selector " \o sel
            IN \E out \in {"lookup_fails", "no_button", "click_fails", "wait_fails", "ok"} :
                 /\ out = "no_button" => sel \notin cur.visible
                 /\ out # "lookup_fails" /\ out # "no_button" => sel \in cur.visible
                 /\ out \in {"lookup_fails", "click_fails", "wait_fails"} => faults > 0
                 /\ faults' = IF out \in {"no_button", "ok"} THEN faults ELSE faults - 1
                 /\ acts' = IF out = "click_fails" THEN Append(acts, click(FALSE))
                            ELSE IF out \in {"wait_fails", "ok"} THEN Append(acts, click(TRUE))
                            ELSE acts
                 /\ logs' = IF out \in {"lookup_fails", "click_fails", "wait_fails"}
                            THEN Append(logs, failure) ELSE logs
                 /\ submitted' = (out = "ok")
                 /\ pc' = IF out = "ok" THEN "errors" ELSE pc
                 /\ cur' = IF out = "ok" THEN cur ELSE [cur EXCEPT !.i = @ + 1]
    /\ UNCHANGED <<req, dom, pw, browser, ctx, disc, matched, resp, screenshot_path>>
    /\ UNCHANGED <<fnVars, concVars>>

\* "Basic error detection": the count of validation hints; its exception is dropped
ErrDetect ==
    /\ pc = "errors"
    /\ \E err_count \in {0, 1} :
         logs' = IF err_count # 0 THEN Append(logs, "Validation hints detected") ELSE logs
    /\ pc' = "screenshot"
    /\ UNCHANGED <<Locals, cur, pw, browser, ctx, resp, faults>>
    /\ UNCHANGED <<fnVars, concVars>>

\* if req.options.screenshot: page.screenshot(path=screenshot_path, ...), and
\* screenshot_path = None when it throws
Screenshot ==
    /\ pc = "screenshot"
    /\ \E wanted \in BOOLEAN, ok \in BOOLEAN :
         /\ ~ok => wanted /\ faults > 0
         /\ faults' = IF ok THEN faults ELSE faults - 1
         /\ screenshot_path' = IF wanted /\ ok THEN [t |-> "path", p |-> "/tmp/fill_<now>.png"]
                               ELSE None
    /\ pc' = "close_ctx"
    /\ UNCHANGED <<req, dom, disc, cur, matched, logs, acts, submitted, pw, browser, ctx, resp>>
    /\ UNCHANGED <<fnVars, concVars>>

\* ctx.close()
CloseCtx ==
    /\ pc = "close_ctx"
    /\ \E ok \in BOOLEAN :
         /\ ~ok => faults > 0
         /\ faults' = IF ok THEN faults ELSE faults - 1
         /\ ctx' = IF ok THEN "closed" ELSE ctx
         /\ pc' = IF ok THEN "close_browser" ELSE "raised"
    /\ UNCHANGED <<Locals, cur, logs, pw, browser, resp>>
    /\ UNCHANGED <<fnVars, concVars>>

\* browser.close()
CloseBrowser ==
    /\ pc = "close_browser"
    /\ \E ok \in BOOLEAN :
         /\ ~ok => faults > 0
         /\ faults' = IF ok THEN faults ELSE faults - 1
         /\ browser' = IF ok THEN "closed" ELSE browser
         /\ pc' = IF ok THEN "exit" ELSE "raised"
    /\ UNCHANGED <<Locals, cur, logs, pw, ctx, resp>>
    /\ UNCHANGED <<fnVars, concVars>>

\* the body returned by the handler
Body ==
    IF req.ep = "discover"
    THEN [status |-> 200, discovered |-> matched]
    ELSE [status |-> 200,
          result |-> IF submitted THEN "submitted" ELSE "filled_no_submit",
          matched |-> matched, errors |-> logs, screenshot_path |-> screenshot_path]

\* the end of the with block, reached normally or by an exception: the
\* playwright driver stops; then the response, or the error response of an
\* exception no handler catches
ExitWith ==
    /\ pc \in {"exit", "raised"}
    /\ pw' = "stopped"
    /\ resp' = IF pc = "exit" THEN Body ELSE [status |-> 500]
    /\ pc' = "done"
    /\ UNCHANGED <<Locals, cur, logs, browser, ctx, faults>>
    /\ UNCHANGED <<fnVars, concVars>>

Next ==
    \/ Auth
    \/ StageFiles
    \/ EnterWith
    \/ Launch
    \/ NewContext
    \/ NewPage
    \/ Goto
    \/ Login
    \/ Relogin
    \/ Verint
    \/ DiscoverFrame
    \/ DiscoverControl
    \/ Hsh
    \/ FillControl
    \/ FillReturn
    \/ SubmitBegin
    \/ SubmitStep
    \/ ErrDetect
    \/ Screenshot
    \/ CloseCtx
    \/ CloseBrowser
    \/ ExitWith

Spec == Init /\ [][Next]_vars

-----------------------------------------------------------------------------
(* Properties of the handlers (Spec) *)

\* C3: _discover_fields followed by _fill_discovered never raises to its caller
\* because of a single control: no step of the discovery or of the generic fill
\* leaves the handler by an exception, whichever per-control call throws.
C3_CoreNeverRaises == [][(pc \in {"discover", "fill"}) => (pc' # "raised") ]_vars

\* C4: once browser and context have been opened, both have been closed when
\* the request ends, on every exit path.
C4_ClosedOnEveryExit == pc = "done" => browser # "open" /\ ctx # "open"

\* the steps of a request after the initial page load that the handlers are
\* said to survive
AfterLoad == {"login", "relogin", "verint", "discover", "hsh", "fill", "submit", "submit_loop"}

\* C6: after the API-key check, the opening of browser, context and page and
\* the initial page load, no failure of login, post-login navigation,
\* discovery, hsh-specific fill, generic fill or submit makes the request fail:
\* none of these steps ends in an exception that leaves the handler.
C6_NoFailureAfterLoad == [][(pc \in AfterLoad) => (pc' # "raised") ]_vars

\* the fill attempts on control el: a select's value and option fallbacks
\* belong to the attempt its select by label began
Attempts(el) ==
    {i \in DOMAIN acts :
        /\ acts[i].by \in {"_fill_hsh_specific", "_fill_discovered"}
        /\ acts[i].el = el
        /\ acts[i].op \notin {"select_value", "option_click"}}

\* C7: within one /fill request no control of the page is the target of more
\* than one fill attempt, over _fill_hsh_specific and _fill_discovered together.
C7_AtMostOneAttempt ==
    req.ep = "fill" =>
        \A doc \in {"main", "child"} : \A i \in DOMAIN dom[doc] :
            Cardinality(Attempts([doc |-> doc, idx |-> i])) <= 1

-----------------------------------------------------------------------------
(* Two concurrent requests and the files they write (SpecConc) *)

Requests == {1, 2}

\* values of time.time() in milliseconds the requests can observe
Times == {0, 1, 999, 1000}

\* a request: POST /fill of app.py with or without a file, or POST
\* /fill_hsh_form of tool_api.py
NewRequests ==
    {[kind |-> "fill", pc |-> "stage", files |-> fl, wrote |-> {}] :
         fl \in {<<>>, <<"cv.pdf">>}}
    \cup {[kind |-> "fill_hsh_form", pc |-> "before", files |-> <<>>, wrote |-> {}]}

InitConc ==
    /\ clock = 0
    /\ rq \in [Requests -> NewRequests]
    /\ fs = <<>>
    /\ ReqUnused
    /\ FnUnused

\* int(time.time() * 1000) and int(time.time())
NowMs == clock
NowSec == clock \div 1000

\* a file is created or overwritten at path by request r
Write(r, path) == fs' = Append(fs, [path |-> path, by |-> r])

\* time passes
Tick ==
    /\ \E t \in Times : t > clock /\ clock' = t
    /\ UNCHANGED <<rq, fs>>
    /\ UNCHANGED <<reqVars, fnVars>>

\* fill(): "for f in req.files": open(f"/tmp/{int(time.time()*1000)}_{f.filename}", "wb")
StageFile(r) ==
    /\ rq[r].kind = "fill" /\ rq[r].pc = "stage"
    /\ IF rq[r].files = <<>>
       THEN /\ rq' = [rq EXCEPT ![r].pc = "screenshot"]
            /\ fs' = fs
       ELSE LET path == <<"/tmp/", NowMs, "_", Head(rq[r].files)>>
            IN /\ Write(r, path)
               /\ rq' = [rq EXCEPT ![r].files = Tail(@), ![r].wrote = @ \cup {path}]
    /\ UNCHANGED clock
    /\ UNCHANGED <<reqVars, fnVars>>

\* fill(): page.screenshot(path=f"/tmp/fill_{int(time.time())}.png") when
\* req.options.screenshot
TakeScreenshot(r) ==
    /\ rq[r].kind = "fill" /\ rq[r].pc = "screenshot"
    /\ \E wanted \in BOOLEAN :
         LET path == <<"/tmp/fill_", NowSec, ".png">>
         IN IF wanted
            THEN /\ Write(r, path)
                 /\ rq' = [rq EXCEPT ![r].pc = "done", ![r].wrote = @ \cup {path}]
            ELSE /\ fs' = fs
                 /\ rq' = [rq EXCEPT ![r].pc = "done"]
    /\ UNCHANGED clock
    /\ UNCHANGED <<reqVars, fnVars>>

\* fill_hsh_form(): page.screenshot(path=screenshot_before)
ScreenshotBefore(r) ==
    /\ rq[r].kind = "fill_hsh_form" /\ rq[r].pc = "before"
    /\ \E ok \in BOOLEAN :
         LET path == <<"filled_form.png">>
         IN IF ok
            THEN /\ Write(r, path)
                 /\ rq' = [rq EXCEPT ![r].pc = "after", ![r].wrote = @ \cup {path}]
            ELSE /\ fs' = fs
                 /\ rq' = [rq EXCEPT ![r].pc = "after"]
    /\ UNCHANGED clock
    /\ UNCHANGED <<reqVars, fnVars>>

\* fill_hsh_form(): page.screenshot(path=screenshot_after), in the try block or
\* in its except block
ScreenshotAfter(r) ==
    /\ rq[r].kind = "fill_hsh_form" /\ rq[r].pc = "after"
    /\ \E ok \in BOOLEAN :
         LET path == <<"after_submit.png">>
         IN IF ok
            THEN /\ Write(r, path)
                 /\ rq' = [rq EXCEPT ![r].pc = "done", ![r].wrote = @ \cup {path}]
            ELSE /\ fs' = fs
                 /\ rq' = [rq EXCEPT ![r].pc = "done"]
    /\ UNCHANGED clock
    /\ UNCHANGED <<reqVars, fnVars>>

NextConc ==
    \/ Tick
    \/ \E r \in Requests : StageFile(r)
    \/ \E r \in Requests : TakeScreenshot(r)
    \/ \E r \in Requests : ScreenshotBefore(r)
    \/ \E r \in Requests : ScreenshotAfter(r)

SpecConc == InitConc /\ [][NextConc]_vars

\* C5: in any interleaving of two requests, no file path written by one
\* request is written or overwritten by the other.
C5_NoSharedPath ==
    \A i \in DOMAIN fs : \A j \in DOMAIN fs :
        fs[i].path = fs[j].path => fs[i].by = fs[j].by

-----------------------------------------------------------------------------
(* Properties of the fuzzy fallback (SpecFn) *)

\* the score fuzz.partial_ratio gave to each pair, in vocabulary iteration order
Scores(fz) == [i \in DOMAIN PAIRS |-> partial_ratio(fz, PAIRS[i].s)]
Max(S) == CHOOSE x \in S : \A y \in S : y <= x

\* C11: when no rule matches, _guess_canonical_key returns null if the best
\* score over all (key, synonym) pairs is below 65, and otherwise the key of
\* the first pair, in vocabulary iteration order, that attains the maximum.
C11_FirstMaximumAtLeast65 ==
    FnDone("guess") /\ MatchingRules(fnIn.text) = {} =>
        LET sc == Scores(fnIn.fz)
            best == Max(Range(sc))
        IN IF best < 65 THEN fnOut.ret = NoKey
           ELSE fnOut.ret = PAIRS[Min({i \in DOMAIN sc : sc[i] = best})].canon

\* C11 witness: no rule matched, pairs of two different keys share the maximum
\* score, which is at least 65, and the key of the earlier pair was returned.
C11_Witness ==
    /\ FnDone("guess")
    /\ MatchingRules(fnIn.text) = {}
    /\ LET sc == Scores(fnIn.fz)
           top == {i \in DOMAIN sc : sc[i] = Max(Range(sc))}
       IN /\ Max(Range(sc)) >= 65
          /\ \E i \in top : PAIRS[i].canon # PAIRS[Min(top)].canon
          /\ fnOut.ret = PAIRS[Min(top)].canon

\* C12: for every canonical key K and every synonym s of K's synonym list,
\* _guess_canonical_key(s) returns K, whatever fuzz.partial_ratio answers for
\* the strings that neither contain s nor are contained in it.
C12_SynonymGivesItsKey ==
    FnDone("guess") /\ fnIn.fz = LibOracle(lower(fnIn.text), fnIn.fz.rest) =>
        \A k \in DOMAIN CANONICAL_KEYS : \A j \in DOMAIN CANONICAL_KEYS[k].syns :
            fnIn.text = Chars(CANONICAL_KEYS[k].syns[j]) => fnOut.ret = CANONICAL_KEYS[k].key

\* C12 witness: the synonym "telephone", which no rule matches, has been
\* resolved to phone by the fuzzy scan.
C12_Witness ==
    /\ FnDone("guess")
    /\ fnIn.text = Chars("telephone")
    /\ fnIn.fz = LibOracle(fnIn.text, 99)
    /\ fnOut.calls > 0
    /\ fnOut.ret = "phone"

-----------------------------------------------------------------------------
(* Properties of _normalize_value (SpecFn) *)

\* C13: phone normalization is idempotent: for every string v, normalizing the
\* normalized value gives the normalized value again.
C13_PhoneIdempotent ==
    FnDone("norm") /\ fnIn.key = "phone" /\ fnIn.value.t = "str" =>
        fnOut.again = fnOut.ret

\* C13 witness: "+1 415 555 0117" has been normalized to "+14155550117", which
\* normalizes to itself.
C13_Witness ==
    /\ FnDone("norm")
    /\ fnIn.key = "phone"
    /\ fnIn.value = PyStr(PhoneExample)
    /\ fnOut.ret = PyStr(<<"+","1","4","1","5","5","5","5","0","1","1","7">>)
    /\ fnOut.again = fnOut.ret

\* C14: for key phone, every string without a digit normalizes to the empty
\* string, and every normalized result consists of digits, with a "+" allowed
\* only as its first character.
C14_PhoneDigitsAndLeadingPlus ==
    FnDone("norm") /\ fnIn.key = "phone" /\ fnIn.value.t = "str" =>
        /\ (\A i \in DOMAIN fnIn.value.s : fnIn.value.s[i] \notin Digits) => fnOut.ret = PyStr(<<>>)
        /\ \A i \in DOMAIN fnOut.ret.s :
              fnOut.ret.s[i] \in Digits \/ (i = 1 /\ fnOut.ret.s[i] = "+")

-----------------------------------------------------------------------------
(* The handler discover() alone (SpecDiscover) *)

InitDiscover == Init /\ req.ep = "discover"

NextDiscover ==
    \/ Auth
    \/ EnterWith
    \/ Launch
    \/ NewContext
    \/ NewPage
    \/ Goto
    \/ Login
    \/ Relogin
    \/ Verint
    \/ DiscoverFrame
    \/ DiscoverControl
    \/ FillControl
    \/ FillReturn
    \/ CloseCtx
    \/ CloseBrowser
    \/ ExitWith

SpecDiscover == InitDiscover /\ [][NextDiscover]_vars

\* C15: a /discover request, whatever data it carries, is matched against an
\* empty data map: every record has filled = false and value_used = null, and
\* _fill_discovered performs no fill, select, check or uncheck on any control.
C15_DiscoverFillsNothing ==
    req.ep = "discover" =>
        /\ \A i \in DOMAIN matched : ~matched[i].filled /\ matched[i].value_used = None
        /\ \A i \in DOMAIN acts : acts[i].by # "_fill_discovered"
        /\ resp # None /\ resp.status = 200 => resp.discovered = matched

\* C15 witness: a /discover request has returned a record whose inferred key
\* has a usable value in the data the request carried.
C15_Witness ==
    /\ req.ep = "discover"
    /\ pc = "done"
    /\ resp.status = 200
    /\ \E i \in DOMAIN resp.discovered :
         LET k == resp.discovered[i].canonical_key
         IN k # NoKey /\ NotNoneOrEmpty(best_data_value(k, req.data))

-----------------------------------------------------------------------------
(* Properties of the dispatch of _fill_discovered (SpecFill) *)

\* one iteration of the loop of _fill_discovered is taken
LoopStep == pc = "fill" /\ cur <= Len(disc) /\ cur' = cur + 1 /\ Len(matched') = Len(matched) + 1

\* the browser actions and the log entries the step adds
NewActs == SubSeq(acts', Len(acts) + 1, Len(acts'))
NewLogs == SubSeq(logs', Len(logs) + 1, Len(logs'))

\* the value the caller's data holds for the key inferred for disc[cur]
ValueFor(m) ==
    IF m.canonical_key = NoKey THEN None ELSE best_data_value(m.canonical_key, req.data)

\* C16: for a checkbox or radio control with an inferred key and a present
\* non-empty value, _fill_discovered invokes uncheck exactly when the value is
\* the boolean false and check for every other value; when the action succeeds
\* the record has filled = true in both cases.
C16_UncheckOnlyForFalse ==
    [][(LoopStep /\ disc[cur].meta.tag # "select"
         /\ lower(disc[cur].meta.type) \in CheckTypes
         /\ NotNoneOrEmpty(ValueFor(matched'[cur])))
       => (/\ Len(NewActs) = 1
           /\ NewActs[1].el = disc[cur].el
           /\ NewActs[1].op = (IF ValueFor(matched'[cur]) = PyBool(FALSE) THEN "uncheck" ELSE "check")
           /\ NewActs[1].ok => matched'[cur].filled) ]_vars

\* C16 witness: a checkbox has been unchecked for the value false and its
\* record says filled = true, value_used = "False".
C16_Witness ==
    /\ pc = "returned"
    /\ \E i \in DOMAIN matched :
         /\ lower(matched[i].type) \in CheckTypes
         /\ matched[i].filled
         /\ matched[i].value_used = PyStr(<<"F","a","l","s","e">>)
         /\ \E j \in DOMAIN acts :
              acts[j].el = disc[i].el /\ acts[j].op = "uncheck" /\ acts[j].ok

\* the last action call of the step failed
ActionFailed == NewActs # <<>> /\ ~NewActs[Len(NewActs)].ok

\* C17: when the fill action of a control fails in _fill_discovered, exactly
\* one entry is appended to logs and the control's record has filled = false
\* and value_used = null with its inferred key retained; the loop goes on with
\* the next control, whose record and log entries depend on its own action
\* alone, whatever failed before it.
C17_FailureIsLocal ==
    [][(pc = "fill" /\ cur <= Len(disc))
       => (/\ pc' = "fill" /\ cur' = cur + 1 /\ Len(matched') = Len(matched) + 1
           /\ LET m == matched'[cur]
              IN /\ m.label_text = disc[cur].meta.text
                 /\ ActionFailed =>
                      /\ Len(NewLogs) = 1
                      /\ ~m.filled /\ m.value_used = None
                      /\ m.canonical_key # NoKey
                      /\ m.canonical_key =
                           guess_canonical_key(disc[cur].meta.text, Ctl(dom, disc[cur].el).fz)
                 /\ ~ActionFailed => NewLogs = <<>>
                 /\ m.filled <=> (NewActs # <<>> /\ ~ActionFailed)) ]_vars

\* C17 witness: the action of one control failed, with one log entry in all,
\* and a control after it in the sequence has been filled.
C17_Witness ==
    /\ pc = "returned"
    /\ Len(logs) = 1
    /\ \E i \in DOMAIN matched : \E j \in DOMAIN matched :
         /\ i < j
         /\ ~matched[i].filled /\ matched[i].canonical_key # NoKey
         /\ \E k \in DOMAIN acts : acts[k].el = disc[i].el /\ ~acts[k].ok
         /\ disc[j].el # disc[i].el
         /\ matched[j].filled

\* C18: for a select control, _fill_discovered first attempts the selection by
\* visible option label and attempts it by option value only after the
\* by-label attempt failed; if either attempt succeeds the record has
\* filled = true and nothing is logged, and only if both fail is the record
\* filled = false, with a log entry.
C18_LabelThenValue ==
    [][(LoopStep /\ disc[cur].meta.tag = "select" /\ NotNoneOrEmpty(ValueFor(matched'[cur])))
       => (/\ Len(NewActs) \in {1, 2}
           /\ NewActs[1].op = "select_label"
           /\ Len(NewActs) = 2 <=> ~NewActs[1].ok
           /\ Len(NewActs) = 2 => NewActs[2].op = "select_value"
           /\ IF \E i \in DOMAIN NewActs : NewActs[i].ok
              THEN matched'[cur].filled /\ NewLogs = <<>>
              ELSE ~matched'[cur].filled /\ Len(NewLogs) = 1) ]_vars

\* C18 witness: for one select the by-label attempt failed and the by-value
\* attempt that followed succeeded, and its record says filled = true with
\* nothing logged.
C18_Witness ==
    /\ pc = "returned"
    /\ logs = <<>>
    /\ \E i \in DOMAIN matched :
         /\ matched[i].tag = "select" /\ matched[i].filled
         /\ \E k \in DOMAIN acts :
              /\ k < Len(acts)
              /\ acts[k].el = disc[i].el /\ acts[k].op = "select_label" /\ ~acts[k].ok
              /\ acts[k + 1].el = disc[i].el /\ acts[k + 1].op = "select_value" /\ acts[k + 1].ok

-----------------------------------------------------------------------------
(* Properties of the rules of _guess_canonical_key (SpecFn) *)

\* the fragments of the rule of key k
RuleFragments(k) ==
    CASE k = "email" -> {LIT_email}
      [] k = "postal_code" -> RE_postal
      [] k = "first_name" -> RE_first
      [] k = "last_name" -> RE_last
      [] k = "phone" -> RE_phone
      [] k = "company" -> RE_company
      [] k = "city" -> RE_city
      [] k = "state" -> RE_state
      [] k = "country" -> RE_country
      [] k = "dob" -> RE_dob
      [] k = "address_line1" -> RE_address
      [] k = "accept_tos" -> RE_tos

\* f occurs in t as a whole word: no letter, digit or "_" stands next to it
WholeWord(t, f) ==
    \E i \in 1..Len(t) :
        /\ MatchAt(t, f, i)
        /\ i = 1 \/ ~IsWordChar(t[i - 1])
        /\ i + Len(f) = Len(t) + 1 \/ ~IsWordChar(t[i + Len(f)])

\* a rule, not the fuzzy scan, produced the result
ByRule == FnDone("guess") /\ fnOut.calls = 0

\* C19 as stated: every rule of _guess_canonical_key is word-boundary anchored:
\* a rule returns its key only when one of its fragments occurs in the
\* lower-cased signature as a whole word.
C19_EveryRuleWholeWord ==
    ByRule => \E f \in RuleFragments(fnOut.ret) : WholeWord(lower(fnIn.text), f)

\* C19 amended: every rule except the email rule returns its key only when one
\* of its fragments occurs in the lower-cased signature as a whole word; the
\* email rule returns email whenever "email" occurs anywhere in the lower-cased
\* signature, inside a longer word too.
C19_RulesButEmailWholeWord ==
    /\ ByRule /\ fnOut.ret # "email" =>
          \E f \in RuleFragments(fnOut.ret) : WholeWord(lower(fnIn.text), f)
    /\ FnDone("guess") /\ Contains(lower(fnIn.text), LIT_email) =>
          ByRule /\ fnOut.ret = "email"

\* C19 witness: the signature holds "first" only as part of the longer word
\* "first_name", the first-name rule did not fire, and a later rule gave the key.
C19_Witness ==
    /\ ByRule
    /\ Contains(lower(fnIn.text), <<"f","i","r","s","t","_">>)
    /\ ~WholeWord(lower(fnIn.text), <<"f","i","r","s","t">>)
    /\ fnOut.ret \notin {"email", "postal_code", "first_name"}


-----------------------------------------------------------------------------
(* _submit_if_possible within /fill *)

\* the clicks "btn.first.click()" of _submit_if_possible that were performed
SubmitClicks ==
    {i \in DOMAIN acts :
        acts[i].by = "_submit_if_possible" /\ acts[i].op = "click" /\ acts[i].ok}

\* C21: _submit_if_possible clicks at most one submit control per request: once
\* a click on a candidate selector has been performed no further candidate is
\* clicked, also when the wait after the click times out; and a response with
\* status "filled_no_submit" is given only when no submit control was clicked.
C21_AtMostOneSubmitClick ==
    req.ep = "fill" =>
        /\ Cardinality(SubmitClicks) <= 1
        /\ (pc = "done" /\ "result" \in DOMAIN resp /\ resp.result = "filled_no_submit")
              => SubmitClicks = {}

-----------------------------------------------------------------------------
(* _discover_fields within discover() *)

\* the positions of the discovery sequence that hold control i of document doc
Occurrences(doc, i) == {j \in DOMAIN disc : disc[j].el = [doc |-> doc, idx |-> i]}

\* C22: _discover_fields lists every visible control of the page exactly once:
\* no control of the main document or of an embedded frame appears twice in
\* the discovery sequence, and when discovery has returned and no browser call
\* has failed every visible control appears in it.
C22_EveryVisibleControlOnce ==
    \A doc \in {"main", "child"} : \A i \in DOMAIN dom[doc] :
        /\ Cardinality(Occurrences(doc, i)) <= 1
        /\ (pc = "fill" /\ faults = MaxFaults /\ dom[doc][i].visible)
              => Cardinality(Occurrences(doc, i)) = 1

-----------------------------------------------------------------------------
(* fill_hsh_form of form_filler_tool.py (SpecHshForm) *)

\* the sample of the manual test, and a caller that sends shelters: null
T_sample ==
    [first_name |-> PyStr(<<"A","d","a">>), bed_preference |-> PyStr(<<"f","e","m","a","l","e">>),
     shelters |-> PyList(<<"MSC_south", "next_door">>), notes |-> PyStr(<<"h","i">>)]
T_null == [first_name |-> PyStr(<<"A","d","a">>), shelters |-> None]

ToolData == HandlerData \cup {T_sample, T_null}

\* the site as the tool meets it: how navigation answers and which parts of
\* the form are on the page
ToolPages ==
    [net : {"ok", "slow_once", "down"}, forename : BOOLEAN, bedId : BOOLEAN,
     radios : BOOLEAN, shelter : BOOLEAN, button : BOOLEAN, banner : BOOLEAN]

\* the locals of the call: page created, success, confirmation, the value a
\* return statement has produced, and whether the except branch was entered
ToolLocals ==
    [page |-> FALSE, success |-> FALSE, confirmation |-> {}, ret |-> None, exc |-> FALSE]

InitHshForm ==
    /\ req \in {[ep |-> "fill_hsh_form", data |-> d] : d \in ToolData}
    /\ dom \in ToolPages
    /\ pc = "t_enter"
    /\ pw = "none" /\ browser = "none" /\ ctx = "none"
    /\ disc = <<>> /\ cur = ToolLocals /\ matched = <<>> /\ logs = <<>> /\ acts = <<>>
    /\ submitted = FALSE /\ resp = None /\ screenshot_path = None
    /\ faults = MaxFaults
    /\ FnUnused /\ ConcUnused

\* what a step of the tool leaves alone
ToolRest == <<req, dom, disc, matched, acts, screenshot_path>>

\* a browser call that is not guarded and is outside the try block: a failure
\* leaves the with block as an exception
ToolCall(ok, next) ==
    /\ ~ok => faults > 0
    /\ faults' = IF ok THEN faults ELSE faults - 1
    /\ pc' = IF ok THEN next ELSE "t_propagate"

\* a block "try: ... except Exception: pass": a failure changes nothing
ToolGuarded(next) ==
    /\ \E ok \in BOOLEAN :
         /\ ~ok => faults > 0
         /\ faults' = IF ok THEN faults ELSE faults - 1
    /\ pc' = next

\* an unguarded call inside the try block: a failure enters "except Exception"
ToolTry(raise, usedFault, next) ==
    /\ usedFault => faults > 0
    /\ faults' = IF usedFault THEN faults - 1 ELSE faults
    /\ pc' = IF raise THEN "t_except" ELSE next
    /\ cur' = IF raise THEN [cur EXCEPT !.exc = TRUE] ELSE cur

\* "with sync_playwright() as p:"
ToolEnter ==
    /\ pc = "t_enter"
    /\ pw' = "running"
    /\ pc' = "t_launch"
    /\ UNCHANGED <<ToolRest, cur, logs, submitted, browser, ctx, resp, faults>>
    /\ UNCHANGED <<fnVars, concVars>>

\* browser = p.chromium.launch(...)
ToolLaunch ==
    /\ pc = "t_launch"
    /\ \E ok \in BOOLEAN :
         /\ ToolCall(ok, "t_context")
         /\ browser' = IF ok THEN "open" ELSE browser
    /\ UNCHANGED <<ToolRest, cur, logs, submitted, pw, ctx, resp>>
    /\ UNCHANGED <<fnVars, concVars>>

\* ctx = browser.new_context()
ToolNewContext ==
    /\ pc = "t_context"
    /\ \E ok \in BOOLEAN :
         /\ ToolCall(ok, "t_page")
         /\ ctx' = IF ok THEN "open" ELSE ctx
    /\ UNCHANGED <<ToolRest, cur, logs, submitted, pw, browser, resp>>
    /\ UNCHANGED <<fnVars, concVars>>

\* page = ctx.new_page() and the two default timeouts
ToolNewPage ==
    /\ pc = "t_page"
    /\ \E ok \in BOOLEAN :
         /\ ToolCall(ok, "t_goto")
         /\ cur' = IF ok THEN [cur EXCEPT !.page = TRUE] ELSE cur
    /\ UNCHANGED <<ToolRest, logs, submitted, pw, browser, ctx, resp>>
    /\ UNCHANGED <<fnVars, concVars>>

\* safe_goto(page, URL), attempts = 2: a TimeoutError of the first attempt is
\* logged and answered by one reload, whose failure is passed over; a
\* TimeoutError of the last attempt, and any other exception, is raised
safe_goto ==
    /\ pc = "t_goto"
    /\ \E out \in {"loaded", "error", "reloaded", "reload_failed", "timed_out"} :
         /\ out = "loaded" => dom.net = "ok"
         /\ out \in {"reloaded", "reload_failed"} => dom.net = "slow_once"
         /\ out = "timed_out" => dom.net = "down"
         /\ out = "error" => dom.net # "down"
         /\ logs' = IF out \in {"reloaded", "reload_failed", "timed_out"}
                    THEN Append(logs, "Goto timed out; reloading once") ELSE logs
         /\ ToolTry(out \in {"error", "timed_out"}, out \in {"error", "reload_failed"},
                    "t_start")
    /\ UNCHANGED <<ToolRest, submitted, pw, browser, ctx, resp>>
    /\ UNCHANGED <<fnVars, concVars>>

\* the guarded click on a "Start" button
ToolStart ==
    /\ pc = "t_start"
    /\ ToolGuarded("t_wait")
    /\ UNCHANGED <<ToolRest, cur, logs, submitted, pw, browser, ctx, resp>>
    /\ UNCHANGED <<fnVars, concVars>>

\* page.wait_for_selector("#dform_widget_txt_c_forename"): times out when the
\* field is not on the page
ToolWaitFirstField ==
    /\ pc = "t_wait"
    /\ \E ok \in BOOLEAN :
         ToolTry(~dom.forename \/ ~ok, ~ok, "t_fields")
    /\ UNCHANGED <<ToolRest, logs, submitted, pw, browser, ctx, resp>>
    /\ UNCHANGED <<fnVars, concVars>>

\* participant info, phone owner and alternate contact: the _try_ helpers
\* return false on a failure of the action, their page.locator and count
\* calls are not guarded; the owner name block logs its exception
ToolFields ==
    /\ pc = "t_fields"
    /\ \E out \in {"ok", "owner_skipped", "raise"} :
         /\ logs' = IF out = "owner_skipped" THEN Append(logs, "Owner name field skipped (hidden or not present).")
                    ELSE logs
         /\ ToolTry(out = "raise", out # "ok", "t_bed")
    /\ UNCHANGED <<ToolRest, submitted, pw, browser, ctx, resp>>
    /\ UNCHANGED <<fnVars, concVars>>

\* bed = (data.get("bed_preference") or "").lower(): a value without lower()
\* raises; "male"/"female": _try_check on the id, else the unguarded check()
\* on the radio group
ToolBed ==
    /\ pc = "t_bed"
    /\ LET v == Or(DataGet(req.data, "bed_preference"), PyStr(<<>>))
           bed == IF v.t = "str" THEN lower(v.s) ELSE <<>>
           wanted == bed \in {<<"m","a","l","e">>, <<"f","e","m","a","l","e">>}
       IN \E f \in {"none", "check", "fallback"} :
            /\ f # "none" => v.t = "str" /\ wanted
            /\ f = "fallback" => ~dom.bedId
            /\ LET checkOk == dom.bedId /\ f # "check"
                   fallbackOk == dom.radios /\ f # "fallback"
               IN ToolTry(v.t # "str" \/ (wanted /\ ~checkOk /\ ~fallbackOk),
                          f # "none", "t_shelters")
    /\ UNCHANGED <<ToolRest, logs, submitted, pw, browser, ctx, resp>>
    /\ UNCHANGED <<fnVars, concVars>>

\* the shelters loop "for val in data.get("shelters", [])" visits the items of
\* a list or the characters of a string; a value that is not iterable raises;
\* a box that is not on the page is logged
ToolShelters ==
    /\ pc = "t_shelters"
    /\ LET v == IF "shelters" \in DOMAIN req.data THEN req.data["shelters"] ELSE PyList(<<>>)
           iterable == v.t \in {"list", "str"}
           vals == IF v.t = "list" THEN v.l ELSE IF v.t = "str" THEN v.s ELSE <<>>
       IN \E ok \in BOOLEAN :
            /\ ~ok => iterable /\ vals # <<>>
            /\ logs' = IF iterable /\ ok /\ ~dom.shelter
                       THEN logs \o [i \in DOMAIN vals |->
                                      [msg |-> "Could not check shelter: ", val |-> vals[i]]]
                       ELSE logs
            /\ ToolTry(~iterable \/ ~ok, ~ok, "t_notes")
    /\ UNCHANGED <<ToolRest, submitted, pw, browser, ctx, resp>>
    /\ UNCHANGED <<fnVars, concVars>>

\* the guarded fill of the notes textarea
ToolNotes ==
    /\ pc = "t_notes"
    /\ ToolGuarded("t_shot")
    /\ UNCHANGED <<ToolRest, cur, logs, submitted, pw, browser, ctx, resp>>
    /\ UNCHANGED <<fnVars, concVars>>

\* the guarded pre-submit screenshot
ToolScreenshotBefore ==
    /\ pc = "t_shot"
    /\ ToolGuarded("t_submit")
    /\ UNCHANGED <<ToolRest, cur, logs, submitted, pw, browser, ctx, resp>>
    /\ UNCHANGED <<fnVars, concVars>>

\* page.click("#dform_widget_button_but_WFR1W8U0")
ToolSubmit ==
    /\ pc = "t_submit"
    /\ \E ok \in BOOLEAN :
         /\ ToolTry(~dom.button \/ ~ok, ~ok, "t_detect")
         /\ submitted' = (dom.button /\ ok)
    /\ UNCHANGED <<ToolRest, logs, pw, browser, ctx, resp>>
    /\ UNCHANGED <<fnVars, concVars>>

MapfromKeys == {"service_request_number", "waitlist_id", "first_name_confirm", "shelters_confirm"}

\* success detection in three guarded stages, then the guarded extraction of
\* the confirmation values
ToolDetect ==
    /\ pc = "t_detect"
    /\ \E ok \in BOOLEAN :
         /\ ~ok => faults > 0
         /\ faults' = IF ok THEN faults ELSE faults - 1
         /\ cur' = [cur EXCEPT !.success = dom.banner /\ ok,
                               !.confirmation = IF dom.banner /\ ok THEN MapfromKeys ELSE {}]
    /\ pc' = "t_return"
    /\ UNCHANGED <<ToolRest, logs, submitted, pw, browser, ctx, resp>>
    /\ UNCHANGED <<fnVars, concVars>>

\* the dict a return statement of the function builds
ToolResult(success, confirmation) ==
    [success |-> success, logs |-> logs, confirmation |-> confirmation]

\* the guarded final screenshot and the return of the try block
ToolReturn ==
    /\ pc = "t_return"
    /\ ToolGuarded("t_finally")
    /\ cur' = [cur EXCEPT !.ret = ToolResult(cur.success, cur.confirmation)]
    /\ UNCHANGED <<ToolRest, logs, submitted, pw, browser, ctx, resp>>
    /\ UNCHANGED <<fnVars, concVars>>

\* "except Exception as e": the guarded screenshot and the error result
ToolExcept ==
    /\ pc = "t_except"
    /\ ToolGuarded("t_finally")
    /\ cur' = [cur EXCEPT !.ret = ToolResult(FALSE, {})]
    /\ UNCHANGED <<ToolRest, logs, submitted, pw, browser, ctx, resp>>
    /\ UNCHANGED <<fnVars, concVars>>

\* "finally: ctx.close()": its exception leaves the finally block at once
ToolCloseCtx ==
    /\ pc = "t_finally"
    /\ \E ok \in BOOLEAN :
         /\ ToolCall(ok, "t_close_browser")
         /\ ctx' = IF ok THEN "closed" ELSE ctx
    /\ UNCHANGED <<ToolRest, cur, logs, submitted, pw, browser, resp>>
    /\ UNCHANGED <<fnVars, concVars>>

\* "browser.close()", the last statement of the finally block
ToolCloseBrowser ==
    /\ pc = "t_close_browser"
    /\ \E ok \in BOOLEAN :
         /\ ToolCall(ok, "t_exit")
         /\ browser' = IF ok THEN "closed" ELSE browser
    /\ UNCHANGED <<ToolRest, cur, logs, submitted, pw, ctx, resp>>
    /\ UNCHANGED <<fnVars, concVars>>

\* the end of the with block: the driver stops; the caller receives the
\* returned dict, or the exception that left the block
ToolExit ==
    /\ pc \in {"t_exit", "t_propagate"}
    /\ pw' = "stopped"
    /\ resp' = IF pc = "t_exit" THEN cur.ret ELSE [raised |-> TRUE]
    /\ pc' = "t_done"
    /\ UNCHANGED <<ToolRest, cur, logs, submitted, browser, ctx, faults>>
    /\ UNCHANGED <<fnVars, concVars>>

NextHshForm ==
    \/ ToolEnter
    \/ ToolLaunch
    \/ ToolNewContext
    \/ ToolNewPage
    \/ safe_goto
    \/ ToolStart
    \/ ToolWaitFirstField
    \/ ToolFields
    \/ ToolBed
    \/ ToolShelters
    \/ ToolNotes
    \/ ToolScreenshotBefore
    \/ ToolSubmit
    \/ ToolDetect
    \/ ToolReturn
    \/ ToolExcept
    \/ ToolCloseCtx
    \/ ToolCloseBrowser
    \/ ToolExit

SpecHshForm == InitHshForm /\ [][NextHshForm]_vars

\* C20: in fill_hsh_form, once browser, context and page exist, the context
\* and the browser are both closed when the call ends, whichever way it ends
\* (normal return, handled exception, failure of a close call), and a call in
\* which navigation, filling or submission raised hands its caller a result
\* with success = false and an empty confirmation, never an exception.
C20_ClosedAndResultOnEveryExit ==
    (pc = "t_done" /\ cur.page) =>
        /\ ctx = "closed"
        /\ browser = "closed"
        /\ cur.exc => /\ "raised" \notin DOMAIN resp
                      /\ resp.success = FALSE
                      /\ resp.confirmation = {}

====
